---- MODULE Spec2Model ----
(***************************************************************************)
(* Model of the user / product service layer of clean-code-patterns-demo:  *)
(* UserService and ProductService on top of the in-memory repositories,    *)
(* the entity factories and the domain events they publish.                *)
(*                                                                         *)
(* Strings are sequences of one-character strings, so that toLowerCase()   *)
(* and trim() are computed and not assumed.  Every `await` of the source   *)
(* is a suspension point: the synchronous part of the callee runs in the   *)
(* step that makes the call, the caller resumes in a later step.           *)
(***************************************************************************)
EXTENDS Integers, Sequences, FiniteSets, TLC

(* ------------------------------ bounds --------------------------------- *)
MaxEvents == 3
MaxTime == 2
MaxProducts == 2

\* handlers subscribed at a time, over all event types
MaxHandlers == 2

\* strategies registered with a NotificationService
MaxStrategies == 5

\* recipients of one sendBulkNotification call
MaxRecipients == 2

\* entities created by direct calls of the repositories
MaxStored == 2

Procs == {"p1", "p2"}

(* ------------------------------ strings -------------------------------- *)
Whitespace == {" "}

\* String.prototype.toLowerCase, character by character
LowerChar(c) ==
  CASE c = "A" -> "a"
    [] c = "B" -> "b"
    [] c = "D" -> "d"
    [] OTHER -> c

toLowerCase(s) == [i \in 1..Len(s) |-> LowerChar(s[i])]

RECURSIVE trimStart(_)
trimStart(s) ==
  IF s # <<>> /\ Head(s) \in Whitespace THEN trimStart(Tail(s)) ELSE s

RECURSIVE trimEnd(_)
trimEnd(s) ==
  IF s # <<>> /\ s[Len(s)] \in Whitespace
    THEN trimEnd(SubSeq(s, 1, Len(s) - 1))
    ELSE s

\* String.prototype.trim
trim(s) == trimEnd(trimStart(s))

\* the canonical form of an email: lower-cased and trimmed
Canonical(s) == trim(toLowerCase(s))

\* an optional field that is not present in a request (undefined)
Absent == <<"undefined">>

\* a query parameter given more than once: req.query holds an array
Repeated == <<"array">>

\* typeof v === 'string', for a value that is present
IsString(v) == v # Repeated

\* JavaScript truthiness of an optional string: undefined and "" are falsy
Truthy(s) == s # Absent /\ s # <<>>

(* ------------------------------ inputs --------------------------------- *)
EmailInputs ==
  { <<"a", "@", "b", ".", "c">>,
    <<"A", "@", "b", ".", "c">>,
    <<" ", "a", "@", "b", ".", "c">>,
    <<"d", "@", "b", ".", "c">> }

NameInputs ==
  { <<"A", "n">>,
    <<" ", "B", "o", " ">> }

\* a name of one character once trimmed
ShortName == <<" ", "A">>

Digits == <<"1", "2", "3", "4", "5", "6", "7", "8", "9">>

\* uuidv4(): the n-th identifier generated; identifiers never repeat
uuidv4(n) == <<"u", Digits[n]>>

OverlapEmails ==
  { <<"a", "@", "b", ".", "c">>,
    <<"d", "@", "b", ".", "c">> }

OverlapNames == { <<"A", "n">> }

OverlapIds == {uuidv4(1), uuidv4(2)}

IdInputs == {uuidv4(1), uuidv4(2), <<>>, <<" ">>}

(* ------------------------------ entities ------------------------------- *)
\* null, as returned by the repositories for an entity that is not stored
NullUser ==
  [id |-> <<>>, email |-> <<>>, name |-> <<>>, createdAt |-> -1, updatedAt |-> -1]

(* ---------------------- InMemoryUserRepository ------------------------- *)
\* The Map<string, User> is modelled as the sequence of its values in
\* insertion order; keys are the users' ids.
MapHas(m, id) == \E i \in 1..Len(m) : m[i].id = id

MapIndex(m, id) == CHOOSE i \in 1..Len(m) : m[i].id = id

MapGet(m, id) == IF MapHas(m, id) THEN m[MapIndex(m, id)] ELSE NullUser

\* variant: the store keeps one entry per email
MapSet_ByEmail(m, id, u) ==
  IF \E i \in 1..Len(m) : m[i].email = u.email
    THEN [m EXCEPT ![CHOOSE i \in 1..Len(m) : m[i].email = u.email] = u]
    ELSE Append(m, u)

\* Map.set: an existing key keeps its position, a new key is appended
MapSet(m, id, u) ==
  IF MapHas(m, id)
    THEN [m EXCEPT ![MapIndex(m, id)] = u]
    ELSE Append(m, u)

\* variant: the oldest entry is removed, whatever the key
MapDelete_First(m, id) == IF MapHas(m, id) THEN Tail(m) ELSE m

\* Map.delete
MapDelete(m, id) ==
  IF MapHas(m, id)
    THEN SubSeq(m, 1, MapIndex(m, id) - 1) \o SubSeq(m, MapIndex(m, id) + 1, Len(m))
    ELSE m

\* new UserId(id) throws when the id is empty or blank
UserIdInvalid(id) == id = <<>> \/ Len(trim(id)) = 0

findById(m, id) == MapGet(m, id)

findAll(m) == m

\* users.find(u => u.email === email.toLowerCase()): first match in
\* insertion order, null when there is none
findByEmail(m, email) ==
  IF \E i \in 1..Len(m) : m[i].email = toLowerCase(email)
    THEN m[CHOOSE i \in 1..Len(m) :
             /\ m[i].email = toLowerCase(email)
             /\ \A j \in 1..(i - 1) : m[j].email # toLowerCase(email)]
    ELSE NullUser

\* variant: the modification time is stamped apart from the creation time
RepoCreateUser_LateStamp(n, t, email, name) ==
  [id |-> uuidv4(n), email |-> email, name |-> name, createdAt |-> t, updatedAt |-> t + 1]

\* InMemoryUserRepository.create: the stored user
RepoCreateUser(n, t, email, name) ==
  [id |-> uuidv4(n), email |-> email, name |-> name, createdAt |-> t, updatedAt |-> t]

\* InMemoryUserRepository.update, after its delay:
\* {...existingUser, ...updates, updatedAt: new Date()}, where updates is a
\* record holding the fields that are present
RepoMergeUser(existing, updates, t) ==
  [f \in DOMAIN existing |->
     IF f = "updatedAt" THEN t
     ELSE IF f \in DOMAIN updates THEN updates[f]
     ELSE existing[f]]

(* ------------------------------ products ------------------------------- *)
NullProduct ==
  [id |-> <<>>, name |-> <<>>, price |-> 0, category |-> "", description |-> <<>>,
   inStock |-> FALSE, createdAt |-> -1, updatedAt |-> -1]

\* prices are counted in thousandths of the currency unit
ProductNames == { <<"P", "e", "n">>, <<"x">> }

ProductPrices == {2500, 0}

LongDescription == <<"a", " ", "g", "o", "o", "d", " ", "p", "e", "n">>

\* a CreateProductRequest
ProductRequest(name, price, category, description, inStock) ==
  [name |-> name, price |-> price, category |-> category,
   description |-> description, inStock |-> inStock]

ProductRequests ==
  { ProductRequest(<<"P", "e", "n">>, 2500, "books", LongDescription, "undefined"),
    ProductRequest(<<"P", "e", "n">>, 2500, "home", LongDescription, "false"),
    ProductRequest(<<"x">>, 2500, "books", LongDescription, "true") }

NoProductRequest == ProductRequest(<<>>, 0, "", <<>>, "undefined")

\* request.inStock ?? true
InStockOrTrue(x) == IF x = "undefined" THEN TRUE ELSE x = "true"

\* an UpdateProductRequest: fields names the properties that are present
ProductUpdate(fields, name, price, category, description, inStock) ==
  [fields |-> fields, name |-> name, price |-> price, category |-> category,
   description |-> description, inStock |-> inStock]

NoUpdate == ProductUpdate({}, <<>>, 0, "", <<>>, FALSE)

ProductUpdates ==
  { NoUpdate }
  \cup { [NoUpdate EXCEPT !.fields = {"name"}, !.name = n] : n \in ProductNames }
  \cup { [NoUpdate EXCEPT !.fields = {"price"}, !.price = x] : x \in ProductPrices }
  \cup { [NoUpdate EXCEPT !.fields = {"description"}, !.description = <<"p", "e", "n">>],
         [NoUpdate EXCEPT !.fields = {"inStock"}, !.inStock = FALSE],
         [NoUpdate EXCEPT !.fields = {"category"}, !.category = "home"] }

\* InMemoryProductRepository.findById on the sequence of stored products
findProductById(m, id) ==
  IF \E i \in 1..Len(m) : m[i].id = id
    THEN m[CHOOSE i \in 1..Len(m) : m[i].id = id]
    ELSE NullProduct

\* InMemoryProductRepository.create: the stored product
RepoCreateProduct(n, t, data) ==
  [id |-> uuidv4(n), name |-> data.name, price |-> data.price, category |-> data.category,
   description |-> data.description, inStock |-> data.inStock,
   createdAt |-> t, updatedAt |-> t]

\* {...existing, ...updates, updatedAt: t} for an UpdateProductRequest
SpreadProduct(existing, updates, t) ==
  [f \in DOMAIN existing |->
     IF f = "updatedAt" THEN t
     ELSE IF f \in updates.fields THEN updates[f]
     ELSE existing[f]]

\* InMemoryProductRepository.update: {...existingProduct, ...updates, updatedAt: new Date()}
\* where updates is a whole product
RepoMergeProduct(existing, updates, t) ==
  [f \in DOMAIN existing |->
     IF f = "updatedAt" THEN t
     ELSE IF f \in DOMAIN updates THEN updates[f]
     ELSE existing[f]]

\* ProductFactory.validateProduct: "" when it passes, otherwise the message thrown
ValidateProductError(name, price, description) ==
  IF name = <<>> \/ Len(trim(name)) < 2
    THEN "Product name must be at least 2 characters long"
  ELSE IF price <= 0
    THEN "Product price must be positive"
  ELSE IF description = <<>> \/ Len(trim(description)) < 10
    THEN "Product description must be at least 10 characters long"
  ELSE ""

\* ProductFactory.updateProduct: the product it builds, and its validation
FactoryUpdateProduct(existing, updates, t) == SpreadProduct(existing, updates, t)

FactoryUpdateProductError(existing, updates, t) ==
  LET u == FactoryUpdateProduct(existing, updates, t)
  IN ValidateProductError(u.name, u.price, u.description)

(* ------------------------------ UserFactory ---------------------------- *)
IsLocalChar(c) == c \notin Whitespace /\ c # "@"

\* /^[^\s@]+@[^\s@]+\.[^\s@]+$/
validEmail(s) ==
  \E at \in 2..(Len(s) - 3) :
    /\ s[at] = "@"
    /\ \A i \in 1..Len(s) : i # at => IsLocalChar(s[i])
    /\ \E dot \in (at + 2)..(Len(s) - 1) : s[dot] = "."

\* !name || name.trim().length < 2 is the failure
validName(s) == s # <<>> /\ Len(trim(s)) >= 2

FactoryEmail(existing, updates) ==
  IF Truthy(updates.email) THEN trim(toLowerCase(updates.email)) ELSE existing.email

FactoryName(existing, updates) ==
  IF Truthy(updates.name) THEN trim(updates.name) ELSE existing.name

\* UserFactory.updateUser: "" when it returns, otherwise the message thrown
FactoryUpdateError(existing, updates) ==
  IF Truthy(updates.email) /\ ~validEmail(FactoryEmail(existing, updates))
    THEN "Invalid email format"
  ELSE IF Truthy(updates.name) /\ ~validName(FactoryName(existing, updates))
    THEN "Name must be at least 2 characters long"
  ELSE ""

\* UserFactory.updateUser: the user it returns
FactoryUpdateUser(existing, updates, t) ==
  [id |-> existing.id,
   email |-> FactoryEmail(existing, updates),
   name |-> FactoryName(existing, updates),
   createdAt |-> existing.createdAt,
   updatedAt |-> t]

(* ------------------------------ events --------------------------------- *)
\* variant: the aggregate id is taken from the email
DomainEvent_ByEmail(kind, user, t) ==
  [kind |-> kind, aggregateId |-> user.email, occurredAt |-> t, user |-> user]

\* new UserCreatedEvent(user) and its siblings: DomainEvent takes the
\* aggregate id from the user and stamps occurredAt (the random eventId is
\* left out)
DomainEvent(kind, user, t) ==
  [kind |-> kind, aggregateId |-> user.id, occurredAt |-> t, user |-> user]

NoEvent == DomainEvent("none", NullUser, -1)

(* ------------------------------ state ---------------------------------- *)
VARIABLES
  users,        \* InMemoryUserRepository.users
  nextId,       \* number of identifiers generated so far, plus one
  now,          \* the wall clock read by new Date(), in milliseconds
  events,       \* the events handed to eventPublisher.publish, in order
  overlapping,  \* whether callers start a call while another is in flight
  pc,           \* per caller: position inside the service call
  loc,          \* per caller: arguments and local variables of the call
  pre,          \* per caller: the stored users when the call started
  result,       \* per caller: outcome of the call once it has settled
  products,     \* InMemoryProductRepository.products
  pcall,        \* the ProductService call in flight, its locals and outcome
  handlers,     \* SimpleEventPublisher.handlers: per event type, the handlers in order
  notif,        \* NotificationService: its strategies and the call in flight
  rcall,        \* a call made on a repository directly, its locals and outcome
  http,         \* the HTTP request being handled and the response sent for it
  ecall         \* the last call made on the publisher directly, and what it did

vars == <<users, nextId, now, events, overlapping, pc, loc, pre, result, products, pcall,
          handlers, notif, rcall, http, ecall>>

\* the state outside the services and the publisher
ovars == <<notif, rcall, http, ecall>>

\* locals of a call; written, published and event record what the call has
\* done so far: its repository write, its publish calls and the event it
\* built; rivals are the callers whose current call was in flight and had
\* not written when this call started; subscribed is the handler list
\* publish found for the event, promises the promises of the handlers it
\* invoked
NoLoc ==
  [op |-> "none", id |-> <<>>, email |-> Absent, name |-> Absent,
   normalizedEmail |-> <<>>, existingUser |-> NullUser, emailExists |-> NullUser,
   updatedUser |-> NullUser, repoExisting |-> NullUser, timerStart |-> 0,
   deleted |-> FALSE, user |-> NullUser, list |-> <<>>,
   written |-> FALSE, published |-> 0, event |-> NoEvent, rivals |-> {},
   subscribed |-> <<>>, promises |-> <<>>]

\* the ProductService call: position, arguments, locals and outcome
NoCall ==
  [pc |-> "idle", op |-> "none", id |-> <<>>, updates |-> NoUpdate,
   product |-> NullProduct, updatedProduct |-> NullProduct, repoExisting |-> NullProduct,
   deleted |-> FALSE, written |-> FALSE, published |-> 0, pre |-> <<>>,
   status |-> "pending", message |-> "", list |-> <<>>]

\* the event types of the user events (event.constructor.name)
EventTypes == {"UserCreatedEvent", "UserUpdatedEvent", "UserDeletedEvent"}

\* new Map(): no event type has handlers
NoHandlers == [k \in EventTypes |-> <<>>]

\* the strategies the constructor of NotificationService registers
DefaultStrategies == <<"Email", "Sms", "Push">>

\* a NotificationService and no call: recipients are the addresses of the
\* call, sends the sendNotification call made for each of them, invoked the
\* calls of send in order
NoNotification ==
  [strategies |-> DefaultStrategies, pc |-> "idle", op |-> "none",
   recipients |-> <<>>, sends |-> <<>>, invoked |-> <<>>,
   status |-> "pending", message |-> "", value |-> FALSE,
   success |-> <<>>, failed |-> <<>>]

\* no call on a repository: updates and pupdates are the fields given to
\* update, user, product and flag what the call returned, pre and ppre the
\* stored maps when the call was made
NoRepoCall ==
  [pc |-> "idle", repo |-> "none", op |-> "none", id |-> <<>>,
   updates |-> [name |-> <<>>], pupdates |-> NoUpdate,
   existing |-> NullUser, pexisting |-> NullProduct, timerStart |-> 0,
   user |-> NullUser, product |-> NullProduct, flag |-> FALSE,
   pre |-> <<>>, ppre |-> <<>>,
   category |-> "", email |-> <<>>, list |-> <<>>]

\* no call made on the publisher yet; before is the registry the call
\* found, invoked the handlers a publish invoked, removed the registrations
\* (event type, handler) that unsubscribe has removed and subscribe has not
\* added again
NoPublisherCall ==
  [op |-> "none", type |-> "", handler |-> "", before |-> NoHandlers,
   invoked |-> <<>>, removed |-> {}]

\* no request received yet; status and body are the response once sent,
\* called whether the controller called the service
NoRequest ==
  [pc |-> "idle", route |-> "none", id |-> <<>>, email |-> Absent, name |-> Absent,
   category |-> "", q |-> Absent, request |-> NoProductRequest, updates |-> NoUpdate,
   called |-> FALSE, status |-> 0, body |-> [success |-> FALSE]]

NoResult == [status |-> "pending", message |-> "", value |-> NullUser, list |-> <<>>]

Ok(u) == [status |-> "ok", message |-> "", value |-> u, list |-> <<>>]

OkList(l) == [status |-> "ok", message |-> "", value |-> NullUser, list |-> l]

Error(msg) == [status |-> "error", message |-> msg, value |-> NullUser, list |-> <<>>]

\* empty repositories, no handlers, no call made yet
InitData ==
  /\ users = <<>>
  /\ nextId = 1
  /\ now = 0
  /\ events = <<>>
  /\ loc = [p \in Procs |-> NoLoc]
  /\ pre = [p \in Procs |-> <<>>]
  /\ result = [p \in Procs |-> NoResult]
  /\ products = <<>>
  /\ handlers = NoHandlers
  /\ notif = NoNotification
  /\ rcall = NoRepoCall
  /\ http = NoRequest
  /\ ecall = NoPublisherCall

InitCommon ==
  /\ InitData
  /\ pc = [p \in Procs |-> "idle"]
  /\ pcall = NoCall

\* awaited calls on one of the two services: each route module builds its
\* service with a repository and a publisher of its own, so the services
\* share no state and a run exercises one of them
ServiceInit ==
  /\ InitData
  /\ overlapping = FALSE
  /\ \/ pc = [p \in Procs |-> "idle"] /\ pcall = [NoCall EXCEPT !.pc = "unused"]
     \/ pc = [p \in Procs |-> "unused"] /\ pcall = NoCall

\* callers may overlap their calls
Init == InitCommon /\ overlapping = TRUE

\* callers await each call before they start the next
SeqInit == InitCommon /\ overlapping = FALSE

Mutating == {"createUser", "updateUser", "deleteUser"}

\* calls in flight that may still publish an event
Pending == {q \in Procs : pc[q] \notin {"idle", "done"} /\ loc[q].op \in Mutating
                            /\ loc[q].published = 0}

\* a caller may start a call once the results of finished calls are consumed;
\* the second caller is used for a call that
\* overlaps one in flight
CanCall(p) ==
  /\ pc[p] = "idle"
  /\ \A q \in Procs : pc[q] # "done"
  /\ (~overlapping) => \A q \in Procs : pc[q] = "idle"
  /\ p = "p2" => pc["p1"] # "idle"

\* the callers that may start a call now
Callers == {p \in Procs : CanCall(p)}

\* a caller may start a call that writes: there is room for its event
CanMutate(p) ==
  /\ CanCall(p)
  /\ Len(events) + Cardinality(Pending) < MaxEvents

\* a caller may start a read; a read that overlaps a call in flight is the
\* second caller's (a read's first step writes nothing, so the order of two
\* starts makes no difference)
CanRead(p) ==
  /\ CanCall(p)
  /\ overlapping => p = "p2"

\* the stored users as an awaited call finds them
Found == IF overlapping THEN <<>> ELSE users

\* calls in flight that have not written
Unwritten == {q \in Procs : pc[q] \notin {"idle", "done"} /\ ~loc[q].written}

\* a call starts: its arguments
Begin(op, id, email, name) ==
  [NoLoc EXCEPT !.op = op, !.id = id, !.email = email, !.name = name,
                !.rivals = Unwritten]

\* the promise of caller p settles with outcome r
Settle(p, r) ==
  /\ pc' = [pc EXCEPT ![p] = "done"]
  /\ result' = [result EXCEPT ![p] = r]

\* what the log keeps of a published event
Logged(e) == [kind |-> e.kind, aggregateId |-> e.aggregateId]

(* --------------------------- SimpleEventPublisher ---------------------- *)
\* the handlers that get subscribed; each is an async function, so a
\* failure inside it is a rejected promise. "once" is a one-shot handler: it
\* unsubscribes itself before its first await
Handlers == {"h1", "h2", "once"}

\* eventHandlers.indexOf(handler), counted from 1; 0 when it is not there
IndexOf(list, h) ==
  IF \E i \in 1..Len(list) : list[i] = h
    THEN CHOOSE i \in 1..Len(list) : list[i] = h /\ \A j \in 1..(i - 1) : list[j] # h
    ELSE 0

\* eventHandlers.splice(index, 1)
Splice(list, i) == SubSeq(list, 1, i - 1) \o SubSeq(list, i + 1, Len(list))

\* subscribe(eventType, handler): push onto the list of the event type
SubscribeTo(reg, type, h) == [reg EXCEPT ![type] = Append(@, h)]

\* variant: every registration of the handler is removed
UnsubscribeFrom_All(reg, type, h) ==
  [reg EXCEPT ![type] = SelectSeq(@, LAMBDA x : x # h)]

\* unsubscribe(eventType, handler): remove the first occurrence, if any
UnsubscribeFrom(reg, type, h) ==
  IF IndexOf(reg[type], h) > 0
    THEN [reg EXCEPT ![type] = Splice(@, IndexOf(@, h))]
    ELSE reg

\* the synchronous part of handler h, invoked for an event of the type
HandlerCalled(reg, type, h) ==
  IF h = "once" THEN UnsubscribeFrom(reg, type, h) ELSE reg

\* eventHandlers.map(handler => handler(event).catch(...)) from index k on:
\* map visits the indexes below the length it found at its start and skips
\* an index that the array, the live list of the registry, no longer has
RECURSIVE MapHandlers(_, _, _, _, _)
MapHandlers(reg, type, k, len, invoked) ==
  IF k > len THEN [handlers |-> reg, invoked |-> invoked]
  ELSE IF k > Len(reg[type]) THEN MapHandlers(reg, type, k + 1, len, invoked)
  ELSE MapHandlers(HandlerCalled(reg, type, reg[type][k]), type, k + 1, len,
                   Append(invoked, reg[type][k]))

\* the promises of the invoked handlers
Promises(invoked) ==
  [i \in 1..Len(invoked) |-> [handler |-> invoked[i], state |-> "pending"]]

\* Promise.allSettled(promises) has resolved
AllSettled(promises) == \A i \in 1..Len(promises) : promises[i].state # "pending"

\* variant: the handlers' promises are awaited with Promise.all, uncaught
Published_PromiseAll(promises) ==
  IF \E i \in 1..Len(promises) : promises[i].state = "rejected"
    THEN "rejected" ELSE "fulfilled"

\* how the promise of publish settles: every handler promise has its
\* rejection caught and logged, and Promise.allSettled never rejects
Published(promises) == "fulfilled"

\* what the caller's await of publish gives: the call goes on, or the
\* rejection is rethrown
AfterPublish(p, r) ==
  IF Published(loc[p].promises) = "rejected" THEN Error("publish failed") ELSE r

\* eventPublisher.publish(e), called by caller p, up to its await
Publish(p, e) ==
  LET run == MapHandlers(handlers, e.kind, 1, Len(handlers[e.kind]), <<>>)
  IN /\ events' = Append(events, Logged(e))
     /\ handlers' = run.handlers
     /\ loc' = [loc EXCEPT ![p].published = @ + 1, ![p].event = e,
                           ![p].subscribed = handlers[e.kind],
                           ![p].promises = Promises(run.invoked)]

(* --------------------------- UserService.createUser -------------------- *)
\* variant: the email is lower-cased but not trimmed
NormalizeEmail_NoTrim(email) == toLowerCase(email)

\* request.email.toLowerCase().trim()
NormalizeEmail(email) == trim(toLowerCase(email))

\* up to the first await: normalize the email, call findByEmail
CreateUser_Call(p, email, name) ==
  /\ CanMutate(p)
  /\ pre' = [pre EXCEPT ![p] = Found]
  /\ loc' = [loc EXCEPT ![p] =
        [Begin("createUser", <<>>, email, name) EXCEPT
           !.normalizedEmail = NormalizeEmail(email),
           !.existingUser = findByEmail(users, NormalizeEmail(email))]]
  /\ pc' = [pc EXCEPT ![p] = "c_check"]
  /\ UNCHANGED <<users, nextId, now, events, overlapping, result, products, pcall, handlers, ovars>>

\* the uniqueness check, then userRepository.create
CreateUser_Create(p) ==
  /\ pc[p] = "c_check"
  /\ IF loc[p].existingUser # NullUser
       THEN /\ Settle(p, Error("User with this email already exists"))
            /\ UNCHANGED <<users, nextId, loc>>
       ELSE LET user == RepoCreateUser(nextId, now, loc[p].normalizedEmail, trim(loc[p].name))
            IN /\ users' = MapSet(users, user.id, user)
               /\ nextId' = nextId + 1
               /\ loc' = [loc EXCEPT ![p].user = user, ![p].written = TRUE]
               /\ pc' = [pc EXCEPT ![p] = "c_created"]
               /\ UNCHANGED result
  /\ UNCHANGED <<now, events, overlapping, pre, products, pcall, handlers, ovars>>

\* eventPublisher.publish(new UserCreatedEvent(user))
CreateUser_Publish(p) ==
  /\ pc[p] = "c_created"
  /\ Publish(p, DomainEvent("UserCreatedEvent", loc[p].user, now))
  /\ pc' = [pc EXCEPT ![p] = "c_published"]
  /\ UNCHANGED <<users, nextId, now, overlapping, pre, result, products, pcall, ovars>>

\* once publish has completed: return user
CreateUser_Return(p) ==
  /\ pc[p] = "c_published"
  /\ AllSettled(loc[p].promises)
  /\ Settle(p, AfterPublish(p, Ok(loc[p].user)))
  /\ UNCHANGED <<users, nextId, now, events, overlapping, loc, pre, products, pcall, handlers, ovars>>

(* --------------------------- UserService.updateUser -------------------- *)
\* the request as UserFactory.updateUser reads it
Updates(l) == [email |-> l.email, name |-> l.name]

\* up to the first await: new UserId(id), call findById
UpdateUser_Call(p, id, email, name) ==
  /\ CanMutate(p)
  /\ pre' = [pre EXCEPT ![p] = Found]
  /\ IF UserIdInvalid(id)
       THEN /\ loc' = [loc EXCEPT ![p] = Begin("updateUser", id, email, name)]
            /\ Settle(p, Error("User ID cannot be empty"))
       ELSE /\ loc' = [loc EXCEPT ![p] =
                  [Begin("updateUser", id, email, name) EXCEPT
                     !.existingUser = findById(users, id)]]
            /\ pc' = [pc EXCEPT ![p] = "u_found"]
            /\ UNCHANGED result
  /\ UNCHANGED <<users, nextId, now, events, overlapping, products, pcall, handlers, ovars>>

\* UserFactory.updateUser, then the call of userRepository.update up to its
\* first await (its own findById)
UpdateUser_Merge(p) ==
  LET existing == loc[p].existingUser
      err == FactoryUpdateError(existing, Updates(loc[p]))
  IN IF err # ""
       THEN /\ Settle(p, Error(err))
            /\ UNCHANGED loc
       ELSE /\ loc' = [loc EXCEPT
                  ![p].updatedUser = FactoryUpdateUser(existing, Updates(loc[p]), now),
                  ![p].repoExisting = findById(users, loc[p].id)]
            /\ pc' = [pc EXCEPT ![p] = "r_found"]
            /\ UNCHANGED result

\* whether updateUser runs the uniqueness check:
\* updates.email && updates.email !== existingUser.email
EmailChanges(email, existing) == Truthy(email) /\ email # existing.email

\* the email updateUser hands to findByEmail
CheckedEmail(email) == email

\* the not-found check and, when the email is being changed, the call of
\* findByEmail
UpdateUser_Check(p) ==
  /\ pc[p] = "u_found"
  /\ IF loc[p].existingUser = NullUser
       THEN /\ Settle(p, Error("User not found"))
            /\ UNCHANGED loc
       ELSE IF EmailChanges(loc[p].email, loc[p].existingUser)
         THEN /\ loc' = [loc EXCEPT
                    ![p].emailExists = findByEmail(users, CheckedEmail(loc[p].email))]
              /\ pc' = [pc EXCEPT ![p] = "u_email"]
              /\ UNCHANGED result
         ELSE UpdateUser_Merge(p)
  /\ UNCHANGED <<users, nextId, now, events, overlapping, pre, products, pcall, handlers, ovars>>

\* the uniqueness check on the result of findByEmail
UpdateUser_EmailChecked(p) ==
  /\ pc[p] = "u_email"
  /\ IF loc[p].emailExists # NullUser
       THEN /\ Settle(p, Error("User with this email already exists"))
            /\ UNCHANGED loc
       ELSE UpdateUser_Merge(p)
  /\ UNCHANGED <<users, nextId, now, events, overlapping, pre, products, pcall, handlers, ovars>>

\* InMemoryUserRepository.update after its findById: null, or start the delay
RepoUpdate_Found(p) ==
  /\ pc[p] = "r_found"
  /\ IF loc[p].repoExisting = NullUser
       THEN pc' = [pc EXCEPT ![p] = "u_saved"]
       ELSE pc' = [pc EXCEPT ![p] = "r_timer"]
  /\ loc' = [loc EXCEPT ![p].timerStart = now]
  /\ UNCHANGED <<users, nextId, now, events, overlapping, pre, result, products, pcall, handlers, ovars>>

\* variant: the update does not wait
TimerFired_NoDelay(start, t) == TRUE

\* the delay of InMemoryUserRepository.update: setTimeout(resolve, 1)
TimerFired(start, t) == t >= start + 1

\* InMemoryUserRepository.update after the delay: merge and users.set
RepoUpdate_Write(p) ==
  /\ pc[p] = "r_timer"
  /\ TimerFired(loc[p].timerStart, now)
  /\ LET updated == RepoMergeUser(loc[p].repoExisting, loc[p].updatedUser, now)
     IN /\ users' = MapSet(users, loc[p].id, updated)
        /\ loc' = [loc EXCEPT ![p].user = updated, ![p].written = TRUE]
  /\ pc' = [pc EXCEPT ![p] = "u_saved"]
  /\ UNCHANGED <<nextId, now, events, overlapping, pre, result, products, pcall, handlers, ovars>>

\* the check of savedUser, then eventPublisher.publish(new UserUpdatedEvent(savedUser))
UpdateUser_Publish(p) ==
  /\ pc[p] = "u_saved"
  /\ IF loc[p].user = NullUser
       THEN /\ Settle(p, Error("Failed to update user"))
            /\ UNCHANGED <<events, loc, handlers>>
       ELSE /\ Publish(p, DomainEvent("UserUpdatedEvent", loc[p].user, now))
            /\ pc' = [pc EXCEPT ![p] = "u_published"]
            /\ UNCHANGED result
  /\ UNCHANGED <<users, nextId, now, overlapping, pre, products, pcall, ovars>>

\* once publish has completed: return savedUser
UpdateUser_Return(p) ==
  /\ pc[p] = "u_published"
  /\ AllSettled(loc[p].promises)
  /\ Settle(p, AfterPublish(p, Ok(loc[p].user)))
  /\ UNCHANGED <<users, nextId, now, events, overlapping, loc, pre, products, pcall, handlers, ovars>>

(* --------------------------- UserService.deleteUser -------------------- *)
\* up to the first await: new UserId(id), call findById
DeleteUser_Call(p, id) ==
  /\ CanMutate(p)
  /\ pre' = [pre EXCEPT ![p] = Found]
  /\ IF UserIdInvalid(id)
       THEN /\ loc' = [loc EXCEPT ![p] = Begin("deleteUser", id, Absent, Absent)]
            /\ Settle(p, Error("User ID cannot be empty"))
       ELSE /\ loc' = [loc EXCEPT ![p] =
                  [Begin("deleteUser", id, Absent, Absent) EXCEPT
                     !.existingUser = findById(users, id)]]
            /\ pc' = [pc EXCEPT ![p] = "d_found"]
            /\ UNCHANGED result
  /\ UNCHANGED <<users, nextId, now, events, overlapping, products, pcall, handlers, ovars>>

\* the not-found check, then userRepository.delete
DeleteUser_Delete(p) ==
  /\ pc[p] = "d_found"
  /\ IF loc[p].existingUser = NullUser
       THEN /\ Settle(p, Error("User not found"))
            /\ UNCHANGED <<users, loc>>
       ELSE /\ users' = MapDelete(users, loc[p].id)
            /\ loc' = [loc EXCEPT ![p].deleted = MapHas(users, loc[p].id),
                                  ![p].written = MapHas(users, loc[p].id)]
            /\ pc' = [pc EXCEPT ![p] = "d_deleted"]
            /\ UNCHANGED result
  /\ UNCHANGED <<nextId, now, events, overlapping, pre, products, pcall, handlers, ovars>>

\* variant: the user is read after the delete, when it is gone
DeletedSnapshot_AfterDelete(l) == NullUser

\* the user deleteUser puts in the event: the one it read before the delete
DeletedSnapshot(l) == l.existingUser

\* the check of deleted, then eventPublisher.publish(new UserDeletedEvent(user))
DeleteUser_Publish(p) ==
  /\ pc[p] = "d_deleted"
  /\ IF ~loc[p].deleted
       THEN /\ Settle(p, Error("Failed to delete user"))
            /\ UNCHANGED <<events, loc, handlers>>
       ELSE /\ Publish(p, DomainEvent("UserDeletedEvent", DeletedSnapshot(loc[p]), now))
            /\ pc' = [pc EXCEPT ![p] = "d_published"]
            /\ UNCHANGED result
  /\ UNCHANGED <<users, nextId, now, overlapping, pre, products, pcall, ovars>>

\* once publish has completed: the end of deleteUser (it returns nothing)
DeleteUser_Return(p) ==
  /\ pc[p] = "d_published"
  /\ AllSettled(loc[p].promises)
  /\ Settle(p, AfterPublish(p, Ok(NullUser)))
  /\ UNCHANGED <<users, nextId, now, events, overlapping, loc, pre, products, pcall, handlers, ovars>>

(* --------------------------- UserService reads ------------------------- *)
\* the outcome of getUserById / getUserByEmail for what the repository returned
GetUserOutcome(user) == IF user = NullUser THEN Error("User not found") ELSE Ok(user)

\* getUserById up to its await: new UserId(id), call findById
GetUserById_Call(p, id) ==
  /\ CanRead(p)
  /\ pre' = [pre EXCEPT ![p] = Found]
  /\ IF UserIdInvalid(id)
       THEN /\ loc' = [loc EXCEPT ![p] = Begin("getUserById", id, Absent, Absent)]
            /\ Settle(p, Error("User ID cannot be empty"))
       ELSE /\ loc' = [loc EXCEPT ![p] =
                  [Begin("getUserById", id, Absent, Absent) EXCEPT
                     !.existingUser = findById(users, id)]]
            /\ pc' = [pc EXCEPT ![p] = "g_found"]
            /\ UNCHANGED result
  /\ UNCHANGED <<users, nextId, now, events, overlapping, products, pcall, handlers, ovars>>

\* getUserByEmail up to its await: call findByEmail with the email as given
GetUserByEmail_Call(p, email) ==
  /\ CanRead(p)
  /\ pre' = [pre EXCEPT ![p] = Found]
  /\ loc' = [loc EXCEPT ![p] =
        [Begin("getUserByEmail", <<>>, email, Absent) EXCEPT
           !.existingUser = findByEmail(users, email)]]
  /\ pc' = [pc EXCEPT ![p] = "g_found"]
  /\ UNCHANGED <<users, nextId, now, events, overlapping, result, products, pcall, handlers, ovars>>

\* getUserById / getUserByEmail after the await: throw or return the user
GetUser_Return(p) ==
  /\ pc[p] = "g_found"
  /\ Settle(p, GetUserOutcome(loc[p].existingUser))
  /\ UNCHANGED <<users, nextId, now, events, overlapping, loc, pre, products, pcall, handlers, ovars>>

\* getAllUsers up to its await: call findAll
GetAllUsers_Call(p) ==
  /\ CanRead(p)
  /\ pre' = [pre EXCEPT ![p] = Found]
  /\ loc' = [loc EXCEPT ![p] =
        [Begin("getAllUsers", <<>>, Absent, Absent) EXCEPT !.list = findAll(users)]]
  /\ pc' = [pc EXCEPT ![p] = "a_found"]
  /\ UNCHANGED <<users, nextId, now, events, overlapping, result, products, pcall, handlers, ovars>>

\* getAllUsers after the await
GetAllUsers_Return(p) ==
  /\ pc[p] = "a_found"
  /\ Settle(p, OkList(loc[p].list))
  /\ UNCHANGED <<users, nextId, now, events, overlapping, loc, pre, products, pcall, handlers, ovars>>

(* --------------------------- ProductService ---------------------------- *)
uvars == <<users, events, overlapping, pc, loc, pre, result, handlers, ovars>>

ProductIds == {uuidv4(1), uuidv4(2)}

PBegin(op, id, updates) ==
  [NoCall EXCEPT !.op = op, !.id = id, !.updates = updates, !.pre = products]

PThrow(c, msg) == [c EXCEPT !.pc = "done", !.status = "error", !.message = msg]

PReturn(c) == [c EXCEPT !.pc = "done", !.status = "ok"]

\* createProduct up to its await: productRepository.create runs to its end
CreateProduct_Call(request) ==
  /\ pcall.pc = "idle"
  /\ nextId <= MaxProducts
  /\ LET product == RepoCreateProduct(nextId, now,
                      [name |-> request.name, price |-> request.price,
                       category |-> request.category,
                       description |-> request.description,
                       inStock |-> InStockOrTrue(request.inStock)])
     IN /\ products' = Append(products, product)
        /\ pcall' = [PBegin("createProduct", product.id, NoUpdate) EXCEPT
                       !.pc = "pc_created", !.product = product, !.written = TRUE]
  /\ nextId' = nextId + 1
  /\ UNCHANGED <<now, uvars>>

\* return product
CreateProduct_Return ==
  /\ pcall.pc = "pc_created"
  /\ pcall' = PReturn(pcall)
  /\ UNCHANGED <<products, nextId, now, uvars>>

\* updateProduct up to its first await: call findById
UpdateProduct_Call(id, updates) ==
  /\ pcall.pc = "idle"
  /\ pcall' = [PBegin("updateProduct", id, updates) EXCEPT
                 !.pc = "pu_found", !.product = findProductById(products, id)]
  /\ UNCHANGED <<products, nextId, now, uvars>>

\* variant: the merged product is stored before it is validated
UpdateProduct_Merge_SaveFirst ==
  /\ pcall.pc = "pu_found"
  /\ IF pcall.product = NullProduct
       THEN /\ pcall' = PThrow(pcall, "Product not found")
            /\ UNCHANGED products
       ELSE /\ products' = [i \in 1..Len(products) |->
                              IF products[i].id = pcall.id
                                THEN SpreadProduct(pcall.product, pcall.updates, now)
                                ELSE products[i]]
            /\ pcall' =
                 IF FactoryUpdateProductError(pcall.product, pcall.updates, now) # ""
                   THEN PThrow(pcall, FactoryUpdateProductError(pcall.product, pcall.updates, now))
                   ELSE [pcall EXCEPT
                           !.pc = "pr_found",
                           !.updatedProduct = FactoryUpdateProduct(pcall.product, pcall.updates, now),
                           !.repoExisting = findProductById(products, pcall.id)]
  /\ UNCHANGED <<nextId, now, uvars>>

\* the not-found check, ProductFactory.updateProduct, then the call of
\* productRepository.update up to its await (its own findById)
UpdateProduct_Merge ==
  /\ pcall.pc = "pu_found"
  /\ pcall' =
       IF pcall.product = NullProduct
         THEN PThrow(pcall, "Product not found")
       ELSE IF FactoryUpdateProductError(pcall.product, pcall.updates, now) # ""
         THEN PThrow(pcall, FactoryUpdateProductError(pcall.product, pcall.updates, now))
       ELSE [pcall EXCEPT
               !.pc = "pr_found",
               !.updatedProduct = FactoryUpdateProduct(pcall.product, pcall.updates, now),
               !.repoExisting = findProductById(products, pcall.id)]
  /\ UNCHANGED <<products, nextId, now, uvars>>

\* InMemoryProductRepository.update after its findById: null, or merge and
\* products.set
RepoUpdateProduct_Write ==
  /\ pcall.pc = "pr_found"
  /\ IF pcall.repoExisting = NullProduct
       THEN /\ pcall' = [pcall EXCEPT !.pc = "pu_saved", !.product = NullProduct]
            /\ UNCHANGED products
       ELSE LET updated == RepoMergeProduct(pcall.repoExisting, pcall.updatedProduct, now)
            IN /\ products' = [i \in 1..Len(products) |->
                                 IF products[i].id = pcall.id THEN updated ELSE products[i]]
               /\ pcall' = [pcall EXCEPT !.pc = "pu_saved", !.product = updated,
                                         !.written = TRUE]
  /\ UNCHANGED <<nextId, now, uvars>>

\* the check of savedProduct, then return savedProduct
UpdateProduct_Return ==
  /\ pcall.pc = "pu_saved"
  /\ pcall' = IF pcall.product = NullProduct
                THEN PThrow(pcall, "Failed to update product")
                ELSE PReturn(pcall)
  /\ UNCHANGED <<products, nextId, now, uvars>>

\* deleteProduct up to its first await: call findById
DeleteProduct_Call(id) ==
  /\ pcall.pc = "idle"
  /\ pcall' = [PBegin("deleteProduct", id, NoUpdate) EXCEPT
                 !.pc = "pd_found", !.product = findProductById(products, id)]
  /\ UNCHANGED <<products, nextId, now, uvars>>

\* the not-found check, then productRepository.delete
DeleteProduct_Delete ==
  /\ pcall.pc = "pd_found"
  /\ IF pcall.product = NullProduct
       THEN /\ pcall' = PThrow(pcall, "Product not found")
            /\ UNCHANGED products
       ELSE /\ products' = SelectSeq(products, LAMBDA x : x.id # pcall.id)
            /\ pcall' = [pcall EXCEPT
                           !.pc = "pd_deleted",
                           !.deleted = \E i \in 1..Len(products) : products[i].id = pcall.id,
                           !.written = \E i \in 1..Len(products) : products[i].id = pcall.id]
  /\ UNCHANGED <<nextId, now, uvars>>

\* the check of deleted, then the end of deleteProduct
DeleteProduct_Return ==
  /\ pcall.pc = "pd_deleted"
  /\ pcall' = IF pcall.deleted THEN PReturn(pcall)
                               ELSE PThrow(pcall, "Failed to delete product")
  /\ UNCHANGED <<products, nextId, now, uvars>>

\* getProductById up to its await: call findById
GetProductById_Call(id) ==
  /\ pcall.pc = "idle"
  /\ pcall' = [PBegin("getProductById", id, NoUpdate) EXCEPT
                 !.pc = "pg_found", !.product = findProductById(products, id)]
  /\ UNCHANGED <<products, nextId, now, uvars>>

\* getProductById after the await: throw or return the product
GetProductById_Return ==
  /\ pcall.pc = "pg_found"
  /\ pcall' = IF pcall.product = NullProduct
                THEN PThrow(pcall, "Product not found")
                ELSE PReturn(pcall)
  /\ UNCHANGED <<products, nextId, now, uvars>>

\* the caller takes the outcome of its call
ProductRespond ==
  /\ pcall.pc = "done"
  /\ pcall' = NoCall
  /\ UNCHANGED <<products, nextId, now, uvars>>

\* a millisecond passes
ProductTick ==
  /\ now < MaxTime
  /\ now' = now + 1
  /\ UNCHANGED <<products, nextId, pcall, uvars>>

ProductNext ==
  \/ \E request \in ProductRequests : CreateProduct_Call(request)
  \/ CreateProduct_Return
  \/ \E id \in ProductIds, updates \in ProductUpdates : UpdateProduct_Call(id, updates)
  \/ UpdateProduct_Merge
  \/ RepoUpdateProduct_Write
  \/ UpdateProduct_Return
  \/ \E id \in ProductIds : DeleteProduct_Call(id)
  \/ DeleteProduct_Delete
  \/ DeleteProduct_Return
  \/ \E id \in ProductIds : GetProductById_Call(id)
  \/ GetProductById_Return
  \/ ProductRespond
  \/ ProductTick

\* the product service, one call at a time
ProductSpec == SeqInit /\ [][ProductNext]_vars

(* --------------------------- environment ------------------------------- *)
\* the caller takes the outcome of its call (the controller sends the response)
Respond(p) ==
  /\ pc[p] = "done"
  /\ pc' = [pc EXCEPT ![p] = "idle"]
  /\ loc' = [q \in Procs |->
               IF q = p THEN NoLoc ELSE [loc[q] EXCEPT !.rivals = @ \ {p}]]
  /\ pre' = [pre EXCEPT ![p] = <<>>]
  /\ result' = [result EXCEPT ![p] = NoResult]
  /\ UNCHANGED <<users, nextId, now, events, overlapping, products, pcall, handlers, ovars>>

\* a millisecond passes; with overlapping callers only the milliseconds a
\* pending delay waits for are followed
Tick ==
  /\ now < MaxTime
  /\ overlapping => \E p \in Procs : pc[p] = "r_timer" /\ ~TimerFired(loc[p].timerStart, now)
  /\ now' = now + 1
  /\ UNCHANGED <<users, nextId, events, overlapping, pc, loc, pre, result, products, pcall, handlers, ovars>>

\* the requests callers send; overlapping callers send fewer different ones
Emails == IF overlapping THEN OverlapEmails ELSE EmailInputs

Names == IF overlapping THEN OverlapNames ELSE NameInputs

Ids == IF overlapping THEN OverlapIds ELSE IdInputs

OptEmail == Emails \cup {Absent}

\* the names of an UpdateUserRequest
OptName == Names \cup {Absent} \cup (IF overlapping THEN {} ELSE {ShortName})

Next ==
  \/ \E p \in Callers, email \in Emails, name \in Names : CreateUser_Call(p, email, name)
  \/ \E p \in Procs : CreateUser_Create(p)
  \/ \E p \in Procs : CreateUser_Publish(p)
  \/ \E p \in Procs : CreateUser_Return(p)
  \/ \E p \in Callers, id \in Ids, email \in OptEmail, name \in OptName :
       UpdateUser_Call(p, id, email, name)
  \/ \E p \in Procs : UpdateUser_Check(p)
  \/ \E p \in Procs : UpdateUser_EmailChecked(p)
  \/ \E p \in Procs : RepoUpdate_Found(p)
  \/ \E p \in Procs : RepoUpdate_Write(p)
  \/ \E p \in Procs : UpdateUser_Publish(p)
  \/ \E p \in Procs : UpdateUser_Return(p)
  \/ \E p \in Callers, id \in Ids : DeleteUser_Call(p, id)
  \/ \E p \in Procs : DeleteUser_Delete(p)
  \/ \E p \in Procs : DeleteUser_Publish(p)
  \/ \E p \in Procs : DeleteUser_Return(p)
  \/ \E p \in Callers, id \in Ids : GetUserById_Call(p, id)
  \/ \E p \in Callers, email \in Emails : GetUserByEmail_Call(p, email)
  \/ \E p \in Procs : GetUser_Return(p)
  \/ \E p \in Procs : GetAllUsers_Call(p)
  \/ \E p \in Procs : GetAllUsers_Return(p)
  \/ \E p \in Procs : Respond(p)
  \/ Tick

\* overlapping callers
Spec == Init /\ [][Next]_vars

\* either service, its calls awaited
ServiceNext == Next \/ ProductNext

ServiceSpec == ServiceInit /\ [][ServiceNext]_vars

\* callers that await each call before the next
SeqSpec == SeqInit /\ [][Next]_vars

(* --------------------------- NotificationService ----------------------- *)
\* recipient.includes(c)
includes(s, c) == \E i \in 1..Len(s) : s[i] = c

\* recipient.startsWith(prefix)
startsWith(s, prefix) == Len(s) >= Len(prefix) /\ SubSeq(s, 1, Len(prefix)) = prefix

\* \d
IsDigit(c) == c \in {"0", "1", "2", "3", "4", "5", "6", "7", "8", "9"}

\* /^\+\d{10,15}$/.test(recipient)
IsPhoneNumber(s) ==
  /\ Len(s) \in 11..16
  /\ s[1] = "+"
  /\ \A i \in 2..Len(s) : IsDigit(s[i])

\* canHandle of a strategy; Custom is a strategy added with addStrategy
\* that accepts every recipient
canHandle(strategy, recipient) ==
  CASE strategy = "Email" -> includes(recipient, "@")
    [] strategy = "Sms" -> IsPhoneNumber(recipient)
    [] strategy = "Push" -> startsWith(recipient, <<"d", "e", "v", "i", "c", "e", "_">>)
    [] OTHER -> TRUE

\* how send of a strategy can end: the default strategies return true, an
\* added strategy returns true or false or throws
SendOutcomes(strategy) ==
  IF strategy \in {"Email", "Sms", "Push"} THEN {"true"} ELSE {"true", "false", "thrown"}

\* variant: the last strategy that accepts the recipient is taken
FindStrategy_Last(strategies, recipient) ==
  IF \E i \in 1..Len(strategies) : canHandle(strategies[i], recipient)
    THEN CHOOSE i \in 1..Len(strategies) :
           /\ canHandle(strategies[i], recipient)
           /\ \A j \in (i + 1)..Len(strategies) : ~canHandle(strategies[j], recipient)
    ELSE 0

\* this.strategies.find(s => s.canHandle(recipient)): the position of the
\* strategy found, 0 for undefined
FindStrategy(strategies, recipient) ==
  IF \E i \in 1..Len(strategies) : canHandle(strategies[i], recipient)
    THEN CHOOSE i \in 1..Len(strategies) :
           /\ canHandle(strategies[i], recipient)
           /\ \A j \in 1..(i - 1) : ~canHandle(strategies[j], recipient)
    ELSE 0

\* the recipients of the calls
Recipients ==
  { <<"a", "@", "b", ".", "c">>,
    <<"+", "1", "2", "3", "4", "5", "6", "7", "8", "9", "0">>,
    <<"d", "e", "v", "i", "c", "e", "_", "1">>,
    <<"d", "e", "v", "i", "c", "e", "_", "@">>,
    <<"+", "1", "2", "3">> }

RecipientLists ==
  UNION { [1..n -> Recipients] : n \in 0..MaxRecipients }

\* the string 'unknown'
Unknown == <<"u", "n", "k", "n", "o", "w", "n">>

\* sendNotification(message, recipient) up to its await: the call rejects
\* when no strategy is found, otherwise send of that strategy is called
SendCall(strategies, recipient) ==
  LET i == FindStrategy(strategies, recipient)
  IN [recipient |-> recipient, index |-> i,
      strategy |-> IF i = 0 THEN "none" ELSE strategies[i],
      state |-> IF i = 0 THEN "rejected" ELSE "pending"]

\* the calls of send that a sequence of sendNotification calls makes
RECURSIVE SendsInvoked(_)
SendsInvoked(sends) ==
  IF sends = <<>> THEN <<>>
  ELSE (IF Head(sends).index = 0 THEN <<>>
        ELSE << [index |-> Head(sends).index, strategy |-> Head(sends).strategy,
                 recipient |-> Head(sends).recipient] >>)
       \o SendsInvoked(Tail(sends))

\* the state outside the notification service
svars == <<users, nextId, now, events, overlapping, pc, loc, pre, result,
           products, pcall, handlers, rcall, http, ecall>>

\* addStrategy(strategy)
AddStrategy ==
  /\ notif.pc = "idle"
  /\ Len(notif.strategies) < MaxStrategies
  /\ notif' = [notif EXCEPT !.strategies = Append(@, "Custom")]
  /\ UNCHANGED svars

\* sendNotification(message, recipient) up to its await
SendNotification_Call(recipient) ==
  /\ notif.pc = "idle"
  /\ LET call == SendCall(notif.strategies, recipient)
     IN notif' =
          IF call.index = 0
            THEN [notif EXCEPT !.op = "sendNotification", !.recipients = <<recipient>>,
                               !.pc = "done", !.status = "error",
                               !.message = "No notification strategy found"]
            ELSE [notif EXCEPT !.op = "sendNotification", !.recipients = <<recipient>>,
                               !.pc = "n_sending", !.sends = <<call>>,
                               !.invoked = SendsInvoked(<<call>>)]
  /\ UNCHANGED svars

\* the send of a strategy ends
SendSettles ==
  \E k \in 1..Len(notif.sends) :
    /\ notif.sends[k].state = "pending"
    /\ \E outcome \in SendOutcomes(notif.sends[k].strategy) :
         notif' = [notif EXCEPT !.sends[k].state = outcome]
    /\ UNCHANGED svars

\* variant: a send that throws counts as delivered
Sent_UnlessFalse(state) == state # "false"

\* what sendNotification returns once send has ended: its value, or false
\* from the catch block
Sent(state) == state = "true"

\* sendNotification after its await
SendNotification_Return ==
  /\ notif.pc = "n_sending"
  /\ notif.sends[1].state # "pending"
  /\ notif' = [notif EXCEPT !.pc = "done", !.status = "ok",
                            !.value = Sent(notif.sends[1].state)]
  /\ UNCHANGED svars

\* results.forEach(...): the recipients pushed to success
RECURSIVE BulkSuccess(_)
BulkSuccess(sends) ==
  IF sends = <<>> THEN <<>>
  ELSE (IF Head(sends).state = "true" THEN <<Head(sends).recipient>> ELSE <<>>)
       \o BulkSuccess(Tail(sends))

\* the entry pushed to failed for a sendNotification that did not give true:
\* the recipient when the call fulfilled with false, 'unknown' when the call
\* rejected
FailedEntry(send) == IF send.state = "rejected" THEN Unknown ELSE send.recipient

\* results.forEach(...): the entries pushed to failed
RECURSIVE BulkFailed(_)
BulkFailed(sends) ==
  IF sends = <<>> THEN <<>>
  ELSE (IF Head(sends).state = "true" THEN <<>> ELSE <<FailedEntry(Head(sends))>>)
       \o BulkFailed(Tail(sends))

\* sendBulkNotification(message, recipients) up to its await: recipients.map
\* calls sendNotification for each recipient in turn
SendBulkNotification_Call(recipients) ==
  /\ notif.pc = "idle"
  /\ LET sends == [k \in 1..Len(recipients) |-> SendCall(notif.strategies, recipients[k])]
     IN notif' = [notif EXCEPT !.op = "sendBulkNotification", !.recipients = recipients,
                               !.pc = "b_sending", !.sends = sends,
                               !.invoked = SendsInvoked(sends)]
  /\ UNCHANGED svars

\* sendBulkNotification once Promise.allSettled has resolved
SendBulkNotification_Return ==
  /\ notif.pc = "b_sending"
  /\ \A k \in 1..Len(notif.sends) : notif.sends[k].state # "pending"
  /\ notif' = [notif EXCEPT !.pc = "done", !.status = "ok",
                            !.success = BulkSuccess(notif.sends),
                            !.failed = BulkFailed(notif.sends)]
  /\ UNCHANGED svars

\* the caller takes the outcome of its call
NotificationRespond ==
  /\ notif.pc = "done"
  /\ notif' = [NoNotification EXCEPT !.strategies = notif.strategies]
  /\ UNCHANGED svars

NotificationNext ==
  \/ AddStrategy
  \/ \E recipient \in Recipients : SendNotification_Call(recipient)
  \/ SendNotification_Return
  \/ \E recipients \in RecipientLists : SendBulkNotification_Call(recipients)
  \/ SendBulkNotification_Return
  \/ SendSettles
  \/ NotificationRespond

\* a NotificationService, one call at a time
NotificationSpec == SeqInit /\ [][NotificationNext]_vars

(* ---------------- the repositories, called directly -------------------- *)
\* the ids of the calls: two generated ids and one that is never generated
RepoIds == {uuidv4(1), uuidv4(2), <<"n", "o">>}

\* the data given to InMemoryUserRepository.create
RepoEmail == <<"a", "@", "b", ".", "c">>

RepoName == <<"A", "n">>

\* Partial<User> given to InMemoryUserRepository.update
RepoUserUpdates ==
  { [name |-> <<"B", "o">>],
    [email |-> <<"d", "@", "b", ".", "c">>] }

\* Partial<Product> given to InMemoryProductRepository.update
RepoProductUpdates ==
  { [NoUpdate EXCEPT !.fields = {"price"}, !.price = 3000],
    [NoUpdate EXCEPT !.fields = {"inStock"}, !.inStock = FALSE] }

\* the data given to InMemoryProductRepository.create
RepoProductData ==
  [name |-> <<"P", "e", "n">>, price |-> 2500, category |-> "books",
   description |-> LongDescription, inStock |-> TRUE]

\* the state outside the repositories
rvars == <<events, overlapping, pc, loc, pre, result, pcall, handlers, notif, http,
           ecall>>

\* a call on a repository starts
RepoBegin(repo, op, id) ==
  [NoRepoCall EXCEPT !.repo = repo, !.op = op, !.id = id,
                     !.pre = users, !.ppre = products]

\* InMemoryUserRepository.create
UserRepo_Create(email, name) ==
  /\ rcall.pc = "idle"
  /\ nextId <= MaxStored
  /\ LET user == RepoCreateUser(nextId, now, email, name)
     IN /\ users' = MapSet(users, user.id, user)
        /\ rcall' = [RepoBegin("user", "create", user.id) EXCEPT !.pc = "done", !.user = user]
  /\ nextId' = nextId + 1
  /\ UNCHANGED <<now, products, rvars>>

\* InMemoryUserRepository.findById
UserRepo_FindById(id) ==
  /\ rcall.pc = "idle"
  /\ rcall' = [RepoBegin("user", "findById", id) EXCEPT
                 !.pc = "done", !.user = findById(users, id)]
  /\ UNCHANGED <<users, nextId, now, products, rvars>>

\* InMemoryUserRepository.exists: this.users.has(id)
UserRepo_Exists(id) ==
  /\ rcall.pc = "idle"
  /\ rcall' = [RepoBegin("user", "exists", id) EXCEPT !.pc = "done", !.flag = MapHas(users, id)]
  /\ UNCHANGED <<users, nextId, now, products, rvars>>

\* variant: delete reports success whatever the id
Deleted_Always(m, id) == TRUE

\* what Map.delete returns: whether the key was there
Deleted(m, id) == MapHas(m, id)

\* InMemoryUserRepository.delete: this.users.delete(id)
UserRepo_Delete(id) ==
  /\ rcall.pc = "idle"
  /\ users' = MapDelete(users, id)
  /\ rcall' = [RepoBegin("user", "delete", id) EXCEPT !.pc = "done", !.flag = Deleted(users, id)]
  /\ UNCHANGED <<nextId, now, products, rvars>>

\* InMemoryUserRepository.update up to its first await: call findById
UserRepo_Update_Call(id, updates) ==
  /\ rcall.pc = "idle"
  /\ rcall' = [RepoBegin("user", "update", id) EXCEPT
                 !.pc = "ru_found", !.updates = updates, !.existing = findById(users, id)]
  /\ UNCHANGED <<users, nextId, now, products, rvars>>

\* variant: update goes on without the entity
Missing_Never(existing) == FALSE

\* if (!existingUser) / if (!existingProduct)
Missing(existing) == existing.id = <<>>

\* InMemoryUserRepository.update after findById: return null, or start the
\* delay
UserRepo_Update_Found ==
  /\ rcall.pc = "ru_found"
  /\ rcall' = IF Missing(rcall.existing)
                THEN [rcall EXCEPT !.pc = "done"]
                ELSE [rcall EXCEPT !.pc = "ru_timer", !.timerStart = now]
  /\ UNCHANGED <<users, nextId, now, products, rvars>>

\* InMemoryUserRepository.update after the delay: merge and users.set
UserRepo_Update_Write ==
  /\ rcall.pc = "ru_timer"
  /\ TimerFired(rcall.timerStart, now)
  /\ LET updated == RepoMergeUser(rcall.existing, rcall.updates, now)
     IN /\ users' = MapSet(users, rcall.id, updated)
        /\ rcall' = [rcall EXCEPT !.pc = "done", !.user = updated]
  /\ UNCHANGED <<nextId, now, products, rvars>>

\* InMemoryProductRepository.create
ProductRepo_CreateOf(data) ==
  /\ rcall.pc = "idle"
  /\ nextId <= MaxStored
  /\ LET product == RepoCreateProduct(nextId, now, data)
     IN /\ products' = MapSet(products, product.id, product)
        /\ rcall' = [RepoBegin("product", "create", product.id) EXCEPT
                       !.pc = "done", !.product = product]
  /\ nextId' = nextId + 1
  /\ UNCHANGED <<now, users, rvars>>

ProductRepo_Create == ProductRepo_CreateOf(RepoProductData)

\* InMemoryProductRepository.findById
ProductRepo_FindById(id) ==
  /\ rcall.pc = "idle"
  /\ rcall' = [RepoBegin("product", "findById", id) EXCEPT
                 !.pc = "done", !.product = findProductById(products, id)]
  /\ UNCHANGED <<users, nextId, now, products, rvars>>

\* InMemoryProductRepository.exists: this.products.has(id)
ProductRepo_Exists(id) ==
  /\ rcall.pc = "idle"
  /\ rcall' = [RepoBegin("product", "exists", id) EXCEPT
                 !.pc = "done", !.flag = MapHas(products, id)]
  /\ UNCHANGED <<users, nextId, now, products, rvars>>

\* InMemoryProductRepository.delete: this.products.delete(id)
ProductRepo_Delete(id) ==
  /\ rcall.pc = "idle"
  /\ products' = MapDelete(products, id)
  /\ rcall' = [RepoBegin("product", "delete", id) EXCEPT
                 !.pc = "done", !.flag = Deleted(products, id)]
  /\ UNCHANGED <<users, nextId, now, rvars>>

\* InMemoryProductRepository.update up to its await: call findById
ProductRepo_Update_Call(id, updates) ==
  /\ rcall.pc = "idle"
  /\ rcall' = [RepoBegin("product", "update", id) EXCEPT
                 !.pc = "pu_found", !.pupdates = updates,
                 !.pexisting = findProductById(products, id)]
  /\ UNCHANGED <<users, nextId, now, products, rvars>>

\* InMemoryProductRepository.update after findById: return null, or merge
\* and products.set
ProductRepo_Update_Write ==
  /\ rcall.pc = "pu_found"
  /\ IF Missing(rcall.pexisting)
       THEN /\ rcall' = [rcall EXCEPT !.pc = "done"]
            /\ UNCHANGED products
       ELSE LET updated == SpreadProduct(rcall.pexisting, rcall.pupdates, now)
            IN /\ products' = MapSet(products, rcall.id, updated)
               /\ rcall' = [rcall EXCEPT !.pc = "done", !.product = updated]
  /\ UNCHANGED <<users, nextId, now, rvars>>

\* the caller takes what the call returned
RepoRespond ==
  /\ rcall.pc = "done"
  /\ rcall' = NoRepoCall
  /\ UNCHANGED <<users, nextId, now, products, rvars>>

\* a millisecond passes
RepoTick ==
  /\ now < MaxTime
  /\ now' = now + 1
  /\ UNCHANGED <<users, nextId, products, rcall, rvars>>

RepoNext ==
  \/ UserRepo_Create(RepoEmail, RepoName)
  \/ \E id \in RepoIds : UserRepo_FindById(id)
  \/ \E id \in RepoIds : UserRepo_Exists(id)
  \/ \E id \in RepoIds : UserRepo_Delete(id)
  \/ \E id \in RepoIds, updates \in RepoUserUpdates : UserRepo_Update_Call(id, updates)
  \/ UserRepo_Update_Found
  \/ UserRepo_Update_Write
  \/ ProductRepo_Create
  \/ \E id \in RepoIds : ProductRepo_FindById(id)
  \/ \E id \in RepoIds : ProductRepo_Exists(id)
  \/ \E id \in RepoIds : ProductRepo_Delete(id)
  \/ \E id \in RepoIds, updates \in RepoProductUpdates : ProductRepo_Update_Call(id, updates)
  \/ ProductRepo_Update_Write
  \/ RepoRespond
  \/ RepoTick

\* the two repositories, one call at a time
RepoSpec == SeqInit /\ [][RepoNext]_vars

(* ---------------- the queries of the repositories ---------------------- *)
\* the data given to InMemoryProductRepository.create
QueryProductData ==
  { RepoProductData,
    [RepoProductData EXCEPT !.category = "home"],
    [RepoProductData EXCEPT !.inStock = FALSE] }

\* Partial<Product> given to InMemoryProductRepository.update
QueryProductUpdates ==
  { [NoUpdate EXCEPT !.fields = {"category"}, !.category = "home"],
    [NoUpdate EXCEPT !.fields = {"inStock"}, !.inStock = FALSE] }

\* ProductCategory values asked for
QueryCategories == {"books", "home", "sports"}

\* emails given to InMemoryUserRepository.create and findByEmail
QueryEmails ==
  { <<"a", "@", "b", ".", "c">>, <<"A", "@", "b", ".", "c">>, <<"d", "@", "b", ".", "c">> }

\* Partial<User> given to InMemoryUserRepository.update
QueryUserUpdates == { [email |-> <<"D", "@", "b", ".", "c">>] }

\* variant: the filter keeps the products in stock
findByCategory_InStock(m, category) == SelectSeq(m, LAMBDA p : p.inStock)

\* products.filter(p => p.category === category)
findByCategory(m, category) == SelectSeq(m, LAMBDA p : p.category = category)

\* products.filter(p => p.inStock)
findInStock(m) == SelectSeq(m, LAMBDA p : p.inStock)

\* InMemoryProductRepository.findAll
ProductRepo_FindAll ==
  /\ rcall.pc = "idle"
  /\ rcall' = [RepoBegin("product", "findAll", <<>>) EXCEPT
                 !.pc = "done", !.list = findAll(products)]
  /\ UNCHANGED <<users, nextId, now, products, rvars>>

\* InMemoryProductRepository.findByCategory
ProductRepo_FindByCategory(category) ==
  /\ rcall.pc = "idle"
  /\ rcall' = [RepoBegin("product", "findByCategory", <<>>) EXCEPT
                 !.pc = "done", !.category = category,
                 !.list = findByCategory(products, category)]
  /\ UNCHANGED <<users, nextId, now, products, rvars>>

\* InMemoryProductRepository.findInStock
ProductRepo_FindInStock ==
  /\ rcall.pc = "idle"
  /\ rcall' = [RepoBegin("product", "findInStock", <<>>) EXCEPT
                 !.pc = "done", !.list = findInStock(products)]
  /\ UNCHANGED <<users, nextId, now, products, rvars>>

\* InMemoryUserRepository.findByEmail
UserRepo_FindByEmail(email) ==
  /\ rcall.pc = "idle"
  /\ rcall' = [RepoBegin("user", "findByEmail", <<>>) EXCEPT
                 !.pc = "done", !.email = email, !.user = findByEmail(users, email)]
  /\ UNCHANGED <<users, nextId, now, products, rvars>>

QueryNext ==
  \/ \E data \in QueryProductData : ProductRepo_CreateOf(data)
  \/ \E id \in RepoIds, updates \in QueryProductUpdates : ProductRepo_Update_Call(id, updates)
  \/ ProductRepo_Update_Write
  \/ \E id \in RepoIds : ProductRepo_Delete(id)
  \/ ProductRepo_FindAll
  \/ \E category \in QueryCategories : ProductRepo_FindByCategory(category)
  \/ ProductRepo_FindInStock
  \/ \E email \in QueryEmails : UserRepo_Create(email, RepoName)
  \/ \E id \in RepoIds, updates \in QueryUserUpdates : UserRepo_Update_Call(id, updates)
  \/ UserRepo_Update_Found
  \/ UserRepo_Update_Write
  \/ \E email \in QueryEmails : UserRepo_FindByEmail(email)
  \/ RepoRespond
  \/ RepoTick

\* the two repositories and their queries, one call at a time
QuerySpec == SeqInit /\ [][QueryNext]_vars

(* ------------------- the services given invalid requests --------------- *)
\* emails of the requests: a valid one, one to normalize, one without '@'
RequestEmails ==
  { <<"a", "@", "b", ".", "c">>,
    <<" ", "D", "@", "b", ".", "c">>,
    <<"a", "b">> }

\* names of the requests: a valid one and one of a single character
RequestNames == { <<"A", "n">>, ShortName }

\* awaited calls of createUser and updateUser with valid and invalid fields
RequestNext ==
  \/ \E p \in Callers, email \in RequestEmails, name \in RequestNames :
       CreateUser_Call(p, email, name)
  \/ \E p \in Procs : CreateUser_Create(p)
  \/ \E p \in Procs : CreateUser_Publish(p)
  \/ \E p \in Procs : CreateUser_Return(p)
  \/ \E p \in Callers, email \in RequestEmails \cup {Absent},
        name \in RequestNames \cup {Absent} :
       UpdateUser_Call(p, uuidv4(1), email, name)
  \/ \E p \in Procs : UpdateUser_Check(p)
  \/ \E p \in Procs : UpdateUser_EmailChecked(p)
  \/ \E p \in Procs : RepoUpdate_Found(p)
  \/ \E p \in Procs : RepoUpdate_Write(p)
  \/ \E p \in Procs : UpdateUser_Publish(p)
  \/ \E p \in Procs : UpdateUser_Return(p)
  \/ \E p \in Procs : Respond(p)
  \/ Tick

RequestSpec == SeqInit /\ [][RequestNext]_vars

(* ------------------------- the HTTP boundary --------------------------- *)
\* Object.values(ProductCategory)
ProductCategories == {"electronics", "clothing", "books", "home", "sports"}

\* the routes of userRoutes and productRoutes, named after their controller
\* methods
UserRoutes ==
  {"createUser", "getAllUsers", "getUserByEmail", "getUserById", "updateUser", "deleteUser"}

ProductRoutes ==
  {"createProduct", "getAllProducts", "searchProducts", "getInStockProducts",
   "getProductsByCategory", "getProductById", "updateProduct", "deleteProduct"}

\* req.method of the requests a route receives
Method(route) ==
  CASE route \in {"createUser", "createProduct"} -> "POST"
    [] route \in {"updateUser", "updateProduct"} -> "PUT"
    [] route \in {"deleteUser", "deleteProduct"} -> "DELETE"
    [] OTHER -> "GET"

\* req.path of the requests a route receives, as the pattern it matched
Path(route) ==
  CASE route \in {"createUser", "getAllUsers", "createProduct", "getAllProducts"} -> "/"
    [] route = "getUserByEmail" -> "/email"
    [] route = "searchProducts" -> "/search"
    [] route = "getInStockProducts" -> "/in-stock"
    [] route = "getProductsByCategory" -> "/category/:category"
    [] OTHER -> "/:id"

\* String.prototype.includes
Contains(s, q) == \E i \in 0..(Len(s) - Len(q)) : SubSeq(s, i + 1, i + Len(q)) = q

\* ProductService.searchProducts: the filter over findAll
searchProducts(m, q) ==
  SelectSeq(m, LAMBDA p : \/ Contains(toLowerCase(p.name), toLowerCase(q))
                          \/ Contains(toLowerCase(p.description), toLowerCase(q)))

\* the state outside the request being handled
hvars == <<users, nextId, now, events, overlapping, pc, loc, pre, result, products, pcall,
           handlers, notif, rcall, ecall>>

\* getAllProducts, getProductsByCategory, getInStockProducts and
\* searchProducts up to their await: the repository query
ListProducts_Call(op, list) ==
  /\ pcall.pc = "idle"
  /\ pcall' = [PBegin(op, <<>>, NoUpdate) EXCEPT !.pc = "pl_found", !.list = list]
  /\ UNCHANGED <<products, nextId, now, uvars>>

\* ... after the await: return the list
ListProducts_Return ==
  /\ pcall.pc = "pl_found"
  /\ pcall' = PReturn(pcall)
  /\ UNCHANGED <<products, nextId, now, uvars>>

\* the early return of a controller method: the message of its 400
\* response, "" when it goes on to call the service
BadRequest(req) ==
  CASE req.route \in {"getUserById", "updateUser", "deleteUser"} /\ req.id = <<>>
         -> "User ID is required"
    [] req.route \in {"getProductById", "updateProduct", "deleteProduct"} /\ req.id = <<>>
         -> "Product ID is required"
    [] req.route = "getUserByEmail" /\ (~Truthy(req.email) \/ ~IsString(req.email))
         -> "Email query parameter is required"
    [] req.route = "searchProducts" /\ (~Truthy(req.q) \/ ~IsString(req.q))
         -> "Search query parameter is required"
    [] req.route = "getProductsByCategory" /\ req.category \notin ProductCategories
         -> "Invalid product category"
    [] OTHER -> ""

\* variant: an entity that is not found is answered with 404
ErrorStatus_NotFound(error) ==
  IF error.message \in {"User not found", "Product not found"} THEN 404 ELSE 500

\* errorHandler: error.statusCode || 500; the services throw new
\* Error(message), which carries no statusCode
ErrorStatus(error) == IF "statusCode" \in DOMAIN error THEN error.statusCode ELSE 500

\* errorHandler: the response for an error that surfaced out of a route
errorHandler(error, req, t) ==
  [req EXCEPT !.pc = "sent", !.called = TRUE,
     !.status = ErrorStatus(error),
     !.body = [error |->
                 [message |-> IF error.message = "" THEN "Internal Server Error"
                                                    ELSE error.message,
                  statusCode |-> ErrorStatus(error),
                  timestamp |-> t,
                  path |-> Path(req.route),
                  method |-> Method(req.route)]]]

\* res.status(201) in createUser and createProduct, res.status(200) elsewhere
SuccessStatus(route) == IF route \in {"createUser", "createProduct"} THEN 201 ELSE 200

\* the response of a controller method whose service call returned
Succeeded200(req) ==
  [req EXCEPT !.pc = "sent", !.called = TRUE, !.status = SuccessStatus(req.route),
              !.body = [success |-> TRUE]]

\* the requests: ids come from the path, so they are never empty
HttpIds == {uuidv4(1), <<" ">>}

Received(route) == [NoRequest EXCEPT !.pc = "received", !.route = route]

HttpRequests ==
  { [Received("createUser") EXCEPT !.email = e, !.name = <<"A", "n">>] :
      e \in {<<"a", "@", "b", ".", "c">>, <<"d", "@", "b", ".", "c">>} }
  \cup { Received("getAllUsers"), Received("getAllProducts"), Received("getInStockProducts") }
  \cup { [Received("getUserByEmail") EXCEPT !.email = e] :
           e \in {Absent, <<>>, Repeated, <<"a", "@", "b", ".", "c">>} }
  \cup { [Received(r) EXCEPT !.id = id] :
           r \in {"getUserById", "deleteUser"}, id \in HttpIds }
  \cup { [Received("updateUser") EXCEPT !.id = uuidv4(1), !.email = <<"d", "@", "b", ".", "c">>],
         [Received("updateUser") EXCEPT !.id = uuidv4(1), !.email = <<"a", "b">>],
         [Received("updateUser") EXCEPT !.id = uuidv4(2), !.name = <<"B", "o">>],
         [Received("updateUser") EXCEPT !.id = uuidv4(1), !.name = ShortName] }
  \cup { [Received("createProduct") EXCEPT !.request = r] : r \in ProductRequests }
  \cup { [Received("searchProducts") EXCEPT !.q = q] : q \in {Absent, Repeated, <<"p", "e">>} }
  \cup { [Received("getProductsByCategory") EXCEPT !.category = c] : c \in {"books", "toys"} }
  \cup { [Received(r) EXCEPT !.id = id] :
           r \in {"getProductById", "deleteProduct"}, id \in ProductIds }
  \cup { [Received("updateProduct") EXCEPT !.id = uuidv4(1), !.updates = u] :
           u \in { [NoUpdate EXCEPT !.fields = {"price"}, !.price = 0],
                   [NoUpdate EXCEPT !.fields = {"inStock"}, !.inStock = FALSE] } }

\* a request reaches its route once the previous response has been sent
Http_Receive(req) ==
  /\ http.pc \in {"idle", "sent"}
  /\ \/ req.route \in UserRoutes /\ pc["p1"] = "idle"
     \/ req.route \in ProductRoutes /\ pcall.pc = "idle"
  /\ http' = req
  /\ UNCHANGED hvars

\* res.status(400).json({success: false, message}); return
Ctl_BadRequest ==
  /\ http.pc = "received"
  /\ BadRequest(http) # ""
  /\ http' = [http EXCEPT !.pc = "sent", !.status = 400,
                          !.body = [success |-> FALSE, message |-> BadRequest(http)]]
  /\ UNCHANGED hvars

\* the controller method of the route goes on to its service call
Proceeds(route) ==
  /\ http.pc = "received"
  /\ http.route = route
  /\ BadRequest(http) = ""

Ctl_CreateUser == Proceeds("createUser") /\ CreateUser_Call("p1", http.email, http.name)

Ctl_GetAllUsers == Proceeds("getAllUsers") /\ GetAllUsers_Call("p1")

Ctl_GetUserByEmail == Proceeds("getUserByEmail") /\ GetUserByEmail_Call("p1", http.email)

Ctl_GetUserById == Proceeds("getUserById") /\ GetUserById_Call("p1", http.id)

Ctl_UpdateUser == Proceeds("updateUser") /\ UpdateUser_Call("p1", http.id, http.email, http.name)

Ctl_DeleteUser == Proceeds("deleteUser") /\ DeleteUser_Call("p1", http.id)

Ctl_CreateProduct == Proceeds("createProduct") /\ CreateProduct_Call(http.request)

Ctl_GetAllProducts ==
  Proceeds("getAllProducts") /\ ListProducts_Call("getAllProducts", findAll(products))

Ctl_SearchProducts ==
  Proceeds("searchProducts")
    /\ ListProducts_Call("searchProducts", searchProducts(products, http.q))

Ctl_GetInStockProducts ==
  Proceeds("getInStockProducts")
    /\ ListProducts_Call("getInStockProducts", findInStock(products))

Ctl_GetProductsByCategory ==
  Proceeds("getProductsByCategory")
    /\ ListProducts_Call("getProductsByCategory", findByCategory(products, http.category))

Ctl_GetProductById == Proceeds("getProductById") /\ GetProductById_Call(http.id)

Ctl_UpdateProduct == Proceeds("updateProduct") /\ UpdateProduct_Call(http.id, http.updates)

Ctl_DeleteProduct == Proceeds("deleteProduct") /\ DeleteProduct_Call(http.id)

\* a UserController method after its await: res.status(..).json(..), or the
\* rejection goes through asyncHandler's catch(next) to errorHandler
Http_SendUser ==
  /\ http.pc = "received"
  /\ pc["p1"] = "done"
  /\ http' = IF result["p1"].status = "error"
               THEN errorHandler([message |-> result["p1"].message], http, now)
               ELSE Succeeded200(http)
  /\ UNCHANGED hvars

\* the same for a ProductController method
Http_SendProduct ==
  /\ http.pc = "received"
  /\ pcall.pc = "done"
  /\ http' = IF pcall.status = "error"
               THEN errorHandler([message |-> pcall.message], http, now)
               ELSE Succeeded200(http)
  /\ UNCHANGED hvars

\* the handler is over
Http_EndUser == http.pc = "sent" /\ Respond("p1")

Http_EndProduct == http.pc = "sent" /\ ProductRespond

HttpNext ==
  \/ \E req \in HttpRequests : Http_Receive(req)
  \/ Ctl_BadRequest
  \/ Ctl_CreateUser
  \/ Ctl_GetAllUsers
  \/ Ctl_GetUserByEmail
  \/ Ctl_GetUserById
  \/ Ctl_UpdateUser
  \/ Ctl_DeleteUser
  \/ Ctl_CreateProduct
  \/ Ctl_GetAllProducts
  \/ Ctl_SearchProducts
  \/ Ctl_GetInStockProducts
  \/ Ctl_GetProductsByCategory
  \/ Ctl_GetProductById
  \/ Ctl_UpdateProduct
  \/ Ctl_DeleteProduct
  \/ \E p \in Procs : CreateUser_Create(p)
  \/ \E p \in Procs : CreateUser_Publish(p)
  \/ \E p \in Procs : CreateUser_Return(p)
  \/ \E p \in Procs : UpdateUser_Check(p)
  \/ \E p \in Procs : UpdateUser_EmailChecked(p)
  \/ \E p \in Procs : RepoUpdate_Found(p)
  \/ \E p \in Procs : RepoUpdate_Write(p)
  \/ \E p \in Procs : UpdateUser_Publish(p)
  \/ \E p \in Procs : UpdateUser_Return(p)
  \/ \E p \in Procs : DeleteUser_Delete(p)
  \/ \E p \in Procs : DeleteUser_Publish(p)
  \/ \E p \in Procs : DeleteUser_Return(p)
  \/ \E p \in Procs : GetUser_Return(p)
  \/ \E p \in Procs : GetAllUsers_Return(p)
  \/ CreateProduct_Return
  \/ UpdateProduct_Merge
  \/ RepoUpdateProduct_Write
  \/ UpdateProduct_Return
  \/ DeleteProduct_Delete
  \/ DeleteProduct_Return
  \/ GetProductById_Return
  \/ ListProducts_Return
  \/ Http_SendUser
  \/ Http_SendProduct
  \/ Http_EndUser
  \/ Http_EndProduct
  \/ Tick

\* requests to either router, one at a time
HttpSpec == ServiceInit /\ [][HttpNext]_vars

(* ------------------- the publisher, called directly -------------------- *)
\* the state outside the publisher
evars == <<users, nextId, now, events, overlapping, pc, loc, pre, result, products, pcall,
           notif, rcall, http>>

\* the number of handlers subscribed, over all event types
Subscribers(reg) ==
  Len(reg["UserCreatedEvent"]) + Len(reg["UserUpdatedEvent"]) + Len(reg["UserDeletedEvent"])

\* subscribe(eventType, handler)
Publisher_Subscribe(type, h) ==
  /\ Subscribers(handlers) < MaxHandlers
  /\ handlers' = SubscribeTo(handlers, type, h)
  /\ ecall' = [ecall EXCEPT !.op = "subscribe", !.type = type, !.handler = h,
                            !.before = handlers, !.invoked = <<>>,
                            !.removed = @ \ {<<type, h>>}]
  /\ UNCHANGED evars

\* unsubscribe(eventType, handler)
Publisher_Unsubscribe(type, h) ==
  /\ handlers' = UnsubscribeFrom(handlers, type, h)
  /\ ecall' = [ecall EXCEPT !.op = "unsubscribe", !.type = type, !.handler = h,
                            !.before = handlers, !.invoked = <<>>,
                            !.removed = IF IndexOf(handlers[type], h) > 0
                                          THEN @ \cup {<<type, h>>} ELSE @]
  /\ UNCHANGED evars

\* publish(event) for an event of the type, up to its await
Publisher_Publish(type) ==
  LET run == MapHandlers(handlers, type, 1, Len(handlers[type]), <<>>)
  IN /\ handlers' = run.handlers
     /\ ecall' = [ecall EXCEPT !.op = "publish", !.type = type, !.handler = "",
                               !.before = handlers, !.invoked = run.invoked]
     /\ UNCHANGED evars

\* the event types and the handlers of the direct calls
PublisherTypes == {"UserCreatedEvent", "UserDeletedEvent"}

PublisherHandlers == {"h1", "h2"}

PublisherNext ==
  \/ \E type \in PublisherTypes, h \in PublisherHandlers : Publisher_Subscribe(type, h)
  \/ \E type \in PublisherTypes, h \in PublisherHandlers : Publisher_Unsubscribe(type, h)
  \/ \E type \in PublisherTypes : Publisher_Publish(type)

PublisherSpec == SeqInit /\ [][PublisherNext]_vars

(* ------------------- overlapping calls on one user --------------------- *)
\* the UpdateUserRequests of the overlapping calls: one changes the name
\* only, the other the email only, to an address no user has
RaceUpdates ==
  { [email |-> Absent, name |-> <<"B", "o">>],
    [email |-> <<"d", "@", "b", ".", "c">>, name |-> Absent] }

\* a user is created, then callers update and delete it, their calls
\* overlapping
RaceNext ==
  \/ \E p \in Callers : CreateUser_Call(p, <<"a", "@", "b", ".", "c">>, <<"A", "n">>)
  \/ \E p \in Procs : CreateUser_Create(p)
  \/ \E p \in Procs : CreateUser_Publish(p)
  \/ \E p \in Procs : CreateUser_Return(p)
  \/ \E p \in Callers, u \in RaceUpdates : UpdateUser_Call(p, uuidv4(1), u.email, u.name)
  \/ \E p \in Procs : UpdateUser_Check(p)
  \/ \E p \in Procs : UpdateUser_EmailChecked(p)
  \/ \E p \in Procs : RepoUpdate_Found(p)
  \/ \E p \in Procs : RepoUpdate_Write(p)
  \/ \E p \in Procs : UpdateUser_Publish(p)
  \/ \E p \in Procs : UpdateUser_Return(p)
  \/ \E p \in Callers : DeleteUser_Call(p, uuidv4(1))
  \/ \E p \in Procs : DeleteUser_Delete(p)
  \/ \E p \in Procs : DeleteUser_Publish(p)
  \/ \E p \in Procs : DeleteUser_Return(p)
  \/ \E p \in Procs : Respond(p)
  \/ Tick

RaceSpec == Init /\ [][RaceNext]_vars

(* ------------------- the services with subscribed handlers ------------- *)
\* no service call is in flight
Quiet == \A p \in Procs : pc[p] = "idle"

\* eventPublisher.subscribe(type, h), between two service calls
Subscribe(type, h) ==
  /\ Quiet
  /\ Len(handlers["UserCreatedEvent"]) + Len(handlers["UserUpdatedEvent"])
       + Len(handlers["UserDeletedEvent"]) < MaxHandlers
  /\ handlers' = SubscribeTo(handlers, type, h)
  /\ UNCHANGED <<users, nextId, now, events, overlapping, pc, loc, pre, result,
                 products, pcall, ovars>>

\* eventPublisher.unsubscribe(type, h), between two service calls
Unsubscribe(type, h) ==
  /\ Quiet
  /\ handlers' = UnsubscribeFrom(handlers, type, h)
  /\ UNCHANGED <<users, nextId, now, events, overlapping, pc, loc, pre, result,
                 products, pcall, ovars>>

\* the promise of an invoked handler settles
HandlerSettles(p, state) ==
  \E i \in 1..Len(loc[p].promises) :
    /\ loc[p].promises[i].state = "pending"
    /\ loc' = [loc EXCEPT ![p].promises[i].state = state]
    /\ UNCHANGED <<users, nextId, now, events, overlapping, pc, pre, result,
                   products, pcall, handlers, ovars>>

\* an invoked handler returns
HandlerResolve(p) == HandlerSettles(p, "resolved")

\* an invoked handler throws
HandlerReject(p) == HandlerSettles(p, "rejected")

\* the requests sent while handlers are subscribed
PubEmail == <<"a", "@", "b", ".", "c">>

PubName == <<"A", "n">>

PubNewEmails == {Absent, <<"d", "@", "b", ".", "c">>}

PubNext ==
  \/ \E type \in EventTypes, h \in Handlers : Subscribe(type, h)
  \/ \E type \in EventTypes, h \in Handlers : Unsubscribe(type, h)
  \/ \E p \in Procs : HandlerResolve(p)
  \/ \E p \in Procs : HandlerReject(p)
  \/ \E p \in Procs : CreateUser_Call(p, PubEmail, PubName)
  \/ \E p \in Procs : CreateUser_Create(p)
  \/ \E p \in Procs : CreateUser_Publish(p)
  \/ \E p \in Procs : CreateUser_Return(p)
  \/ \E p \in Procs, email \in PubNewEmails : UpdateUser_Call(p, uuidv4(1), email, Absent)
  \/ \E p \in Procs : UpdateUser_Check(p)
  \/ \E p \in Procs : UpdateUser_EmailChecked(p)
  \/ \E p \in Procs : RepoUpdate_Found(p)
  \/ \E p \in Procs : RepoUpdate_Write(p)
  \/ \E p \in Procs : UpdateUser_Publish(p)
  \/ \E p \in Procs : UpdateUser_Return(p)
  \/ \E p \in Procs : DeleteUser_Call(p, uuidv4(1))
  \/ \E p \in Procs : DeleteUser_Delete(p)
  \/ \E p \in Procs : DeleteUser_Publish(p)
  \/ \E p \in Procs : DeleteUser_Return(p)
  \/ \E p \in Procs : Respond(p)
  \/ Tick

\* awaited service calls, with handlers subscribed
PubSpec == SeqInit /\ [][PubNext]_vars

(* ============================== claims ================================= *)
Done(p, op) == pc[p] = "done" /\ loc[p].op = op

Succeeded(p, op) == Done(p, op) /\ result[p].status = "ok"

Conflict == Error("User with this email already exists")

NotFound == Error("User not found")

\* some user of m has the email e
EmailStored(m, e) == \E i \in 1..Len(m) : m[i].email = e

\* C1: after any sequence of non-overlapping createUser, updateUser and
\* deleteUser calls, no two stored users have the same canonical
\* (lower-cased, trimmed) email.
C1_UniqueCanonicalEmail ==
  \A i, j \in 1..Len(users) :
    i # j => Canonical(users[i].email) # Canonical(users[j].email)

\* two createUser calls with the same email, q started while p was in flight
\* and had not written, and both passed the uniqueness check
BothPassed(p, q) ==
  /\ p # q
  /\ loc[p].op = "createUser" /\ loc[q].op = "createUser"
  /\ p \in loc[q].rivals
  /\ loc[p].normalizedEmail = loc[q].normalizedEmail
  /\ loc[p].existingUser = NullUser /\ loc[q].existingUser = NullUser

\* C2: two overlapping createUser calls with the same email that both pass
\* the findByEmail check before either writes both succeed (neither fails),
\* and once both have written the repository holds two different users with
\* that email.
C2_RaceStoresDuplicates ==
  \A p, q \in Procs :
    BothPassed(p, q) =>
      /\ result[p].status # "error" /\ result[q].status # "error"
      /\ (loc[p].written /\ loc[q].written) =>
           /\ loc[p].user.id # loc[q].user.id
           /\ MapGet(users, loc[p].user.id) = loc[p].user
           /\ MapGet(users, loc[q].user.id) = loc[q].user
           /\ loc[p].user.email = loc[q].user.email

C2_Witness ==
  \E p, q \in Procs :
    /\ BothPassed(p, q)
    /\ Succeeded(p, "createUser") /\ Succeeded(q, "createUser")
    /\ \E i, j \in 1..Len(users) : i # j /\ users[i].email = users[j].email

\* C3: createUser with an email whose canonical form is the email of a
\* stored user fails with the conflict error and leaves the stored users as
\* they were.
C3_CreateConflict ==
  \A p \in Procs :
    (Done(p, "createUser") /\ EmailStored(pre[p], Canonical(loc[p].email))) =>
      /\ result[p] = Conflict
      /\ users = pre[p]
      /\ Len(users) = Len(pre[p])

C3_Witness ==
  \E p \in Procs :
    /\ Done(p, "createUser")
    /\ result[p] = Conflict
    /\ loc[p].email # Canonical(loc[p].email)

\* C4: when createUser succeeds the returned user is the stored one, its
\* email is the canonical form of the input, its name the trimmed input
\* name, and createdAt equals updatedAt.
C4_CreateResult ==
  \A p \in Procs :
    Succeeded(p, "createUser") =>
      /\ result[p].value # NullUser
      /\ MapGet(users, result[p].value.id) = result[p].value
      /\ result[p].value.email = Canonical(loc[p].email)
      /\ result[p].value.name = trim(loc[p].name)
      /\ result[p].value.createdAt = result[p].value.updatedAt

C4_Witness ==
  \E p \in Procs :
    /\ Succeeded(p, "createUser")
    /\ loc[p].email # Canonical(loc[p].email)
    /\ loc[p].name # trim(loc[p].name)

\* C5: updateUser(id, updates) never fails with the email conflict error
\* when the only stored user whose email is the canonical form of
\* updates.email is user id itself.
C5_NoSelfConflict ==
  \A p \in Procs :
    ( /\ Done(p, "updateUser")
      /\ Truthy(loc[p].email)
      /\ MapHas(pre[p], loc[p].id)
      /\ MapGet(pre[p], loc[p].id).email = Canonical(loc[p].email)
      /\ \A i \in 1..Len(pre[p]) :
           pre[p][i].email = Canonical(loc[p].email) => pre[p][i].id = loc[p].id )
    => result[p] # Conflict

\* C6: for a stored user and a name of at least 2 characters after
\* trimming, updateUser(id, {name}) succeeds, keeps id, email and createdAt,
\* sets the name to the trimmed input and leaves updatedAt greater than
\* createdAt.
C6_NameOnlyUpdate ==
  \A p \in Procs :
    ( /\ Done(p, "updateUser")
      /\ MapHas(pre[p], loc[p].id)
      /\ loc[p].email = Absent
      /\ loc[p].name # Absent
      /\ Len(trim(loc[p].name)) >= 2 )
    => /\ result[p].status = "ok"
       /\ result[p].value = MapGet(users, loc[p].id)
       /\ result[p].value.id = loc[p].id
       /\ result[p].value.email = MapGet(pre[p], loc[p].id).email
       /\ result[p].value.createdAt = MapGet(pre[p], loc[p].id).createdAt
       /\ result[p].value.name = trim(loc[p].name)
       /\ result[p].value.updatedAt > result[p].value.createdAt

C6_Witness ==
  \E p \in Procs :
    /\ Succeeded(p, "updateUser")
    /\ loc[p].email = Absent
    /\ loc[p].name # Absent
    /\ loc[p].name # trim(loc[p].name)
    /\ result[p].value.name # MapGet(pre[p], loc[p].id).name

\* what getUserById(id) settles with on the stored users m
GetUserByIdOutcome(m, id) ==
  IF UserIdInvalid(id) THEN Error("User ID cannot be empty")
  ELSE GetUserOutcome(findById(m, id))

ById == {"deleteUser", "getUserById", "updateUser"}

\* C7 as stated: after deleteUser(id) succeeds a following getUserById(id)
\* fails with 'User not found', and deleteUser, getUserById and updateUser
\* on any id that is not stored fail with 'User not found'.
C7_AnyUnknownId ==
  \A p \in Procs :
    /\ Succeeded(p, "deleteUser") => GetUserByIdOutcome(users, loc[p].id) = NotFound
    /\ (pc[p] = "done" /\ loc[p].op \in ById /\ ~MapHas(pre[p], loc[p].id))
         => result[p] = NotFound

\* C7 amended: the same, for ids that hold at least one character that is
\* not whitespace; an empty or blank id fails with 'User ID cannot be empty'.
C7_UnknownId ==
  \A p \in Procs :
    /\ Succeeded(p, "deleteUser") => GetUserByIdOutcome(users, loc[p].id) = NotFound
    /\ (pc[p] = "done" /\ loc[p].op \in ById /\ ~MapHas(pre[p], loc[p].id))
         => IF Len(trim(loc[p].id)) > 0
              THEN result[p] = NotFound
              ELSE result[p] = Error("User ID cannot be empty")

\* a getUserById for a user that was created and then deleted
C7_Witness ==
  \E p \in Procs :
    /\ Done(p, "getUserById")
    /\ result[p] = NotFound
    /\ loc[p].id = uuidv4(1)
    /\ nextId > 1
    /\ Len(users) > 0

EventKind(op) ==
  CASE op = "createUser" -> "UserCreatedEvent"
    [] op = "updateUser" -> "UserUpdatedEvent"
    [] op = "deleteUser" -> "UserDeletedEvent"
    [] OTHER -> "none"

\* the user a successful mutating call acted on
AffectedId(p) == IF loc[p].op = "createUser" THEN result[p].value.id ELSE loc[p].id

\* C8: a successful createUser, updateUser or deleteUser has published
\* exactly one event, of the kind of the operation and with the affected
\* user's id as aggregateId; no call publishes before its repository write,
\* and the reads publish nothing.
C8_OneEventAfterWrite ==
  \A p \in Procs :
    /\ loc[p].published > 0 => loc[p].written
    /\ loc[p].op \notin Mutating => loc[p].published = 0
    /\ (pc[p] = "done" /\ result[p].status = "ok" /\ loc[p].op \in Mutating) =>
         /\ loc[p].published = 1
         /\ loc[p].event.kind = EventKind(loc[p].op)
         /\ loc[p].event.aggregateId = AffectedId(p)
         /\ \E i \in 1..Len(events) : events[i] = Logged(loc[p].event)

C8_Witness ==
  \E p \in Procs :
    /\ Succeeded(p, "deleteUser")
    /\ Len(events) = 3
    /\ events[1].kind = "UserCreatedEvent"
    /\ events[2].kind = "UserUpdatedEvent"
    /\ events[3].kind = "UserDeletedEvent"

\* C9: a successful createProduct, updateProduct or deleteProduct has
\* published exactly one event, after its repository write.
C9_ProductEvent ==
  (pcall.pc = "done" /\ pcall.status = "ok"
     /\ pcall.op \in {"createProduct", "updateProduct", "deleteProduct"})
  => pcall.written /\ pcall.published = 1

\* C10: the UserDeletedEvent of a successful deleteUser carries the user as
\* it was stored right before the removal, and when it is published the
\* user is no longer stored.
C10_DeletedSnapshot ==
  \A p \in Procs :
    (loc[p].op = "deleteUser" /\ loc[p].published > 0) =>
      /\ loc[p].event.kind = "UserDeletedEvent"
      /\ loc[p].event.user # NullUser
      /\ loc[p].event.user = MapGet(pre[p], loc[p].id)
      /\ ~MapHas(users, loc[p].id)

\* a deleteUser that has just published, for a user that was updated before
C10_Witness ==
  \E p \in Procs :
    /\ pc[p] = "d_published"
    /\ loc[p].event.user.updatedAt > loc[p].event.user.createdAt

\* the handlers publish invoked for the event of caller p, in order
Invoked(p) == [i \in 1..Len(loc[p].promises) |-> loc[p].promises[i].handler]

\* a handler invoked for the event of caller p has failed
HandlerFailed(p) == \E i \in 1..Len(loc[p].promises) : loc[p].promises[i].state = "rejected"

\* C11: publish invokes every handler that is subscribed to the event's
\* type when it is called, whatever the other handlers do; a rejected
\* handler promise does not make publish fail, and publish completes only
\* after every invoked handler has settled.
C11_PublishInvokesAll ==
  \A p \in Procs :
    loc[p].published > 0 =>
      /\ Invoked(p) = loc[p].subscribed
      /\ Published(loc[p].promises) = "fulfilled"
      /\ pc[p] = "done" => AllSettled(loc[p].promises)

\* the result a successful call of caller p returns
NormalResult(p) == IF loc[p].op = "deleteUser" THEN Ok(NullUser) ELSE Ok(loc[p].user)

\* the repository write of caller p is in place
WriteInPlace(p) ==
  IF loc[p].op = "deleteUser"
    THEN ~MapHas(users, loc[p].id)
    ELSE MapHas(users, loc[p].user.id) /\ MapGet(users, loc[p].user.id) = loc[p].user

C13_ReturnsAfterHandlers ==
  \A p \in Procs :
    loc[p].published > 0 =>
      /\ loc[p].written
      /\ pc[p] = "done" =>
           /\ Len(loc[p].promises) = Len(loc[p].subscribed)
           /\ AllSettled(loc[p].promises)

\* C14: a UserService or ProductService call that has failed (unknown id,
\* email conflict, validation failure while merging an update) has left
\* the repository as the call found it and has published no event.
C14_FailedCallChangesNothing ==
  /\ \A p \in Procs :
       (pc[p] = "done" /\ result[p].status = "error") =>
         /\ users = pre[p]
         /\ ~loc[p].written
         /\ loc[p].published = 0
  /\ (pcall.pc = "done" /\ pcall.status = "error") =>
       /\ products = pcall.pre
       /\ ~pcall.written
       /\ pcall.published = 0

\* an updateUser of a stored user that failed on the name it was given
C14_Witness ==
  \E p \in Procs :
    /\ Done(p, "updateUser")
    /\ result[p] = Error("Name must be at least 2 characters long")
    /\ MapHas(users, loc[p].id)

\* the strategies of the service that accept the recipient, by position
Accepting(recipient) ==
  {i \in 1..Len(notif.strategies) : canHandle(notif.strategies[i], recipient)}

\* C15: sendNotification calls send on exactly one strategy, the earliest
\* registered one that accepts the recipient, also when a strategy added
\* later accepts it too; when no strategy accepts the recipient the call
\* fails with 'No notification strategy found' and calls no send.
C15_FirstMatchOnly ==
  (notif.op = "sendNotification") =>
    LET recipient == notif.recipients[1]
    IN IF Accepting(recipient) = {}
         THEN /\ notif.invoked = <<>>
              /\ notif.pc = "done"
              /\ notif.status = "error"
              /\ notif.message = "No notification strategy found"
         ELSE /\ Len(notif.invoked) = 1
              /\ notif.invoked[1].recipient = recipient
              /\ notif.invoked[1].index \in Accepting(recipient)
              /\ \A j \in Accepting(recipient) : notif.invoked[1].index <= j
              /\ notif.status # "error"

\* a sendNotification that has returned true from the Email strategy while
\* an added strategy accepts the recipient as well
C15_Witness ==
  /\ notif.op = "sendNotification"
  /\ notif.pc = "done"
  /\ notif.value = TRUE
  /\ notif.invoked[1].strategy = "Email"
  /\ Cardinality(Accepting(notif.recipients[1])) > 1
  /\ Len(notif.strategies) > 3

\* the send for position k of the call's recipients gave true
Delivered(k) == notif.sends[k].state = "true"

Elements(seq) == {seq[i] : i \in 1..Len(seq)}

\* C16: sendBulkNotification never raises an error; an address that no
\* strategy accepts or whose send fails is reported in failed, every other
\* address is dispatched and, its send returning true, reported in success.
C16_BulkReportsEveryAddress ==
  (notif.op = "sendBulkNotification" /\ notif.pc = "done") =>
    /\ notif.status = "ok"
    /\ \A k \in 1..Len(notif.recipients) :
         IF Delivered(k)
           THEN notif.recipients[k] \in Elements(notif.success)
           ELSE notif.recipients[k] \in Elements(notif.failed)

\* C17: the result of sendBulkNotification partitions the input: every
\* input address is in exactly one of success and failed, and the two
\* lists hold nothing but input addresses.
C17_BulkPartition ==
  (notif.op = "sendBulkNotification" /\ notif.pc = "done") =>
    /\ \A x \in Elements(notif.recipients) :
         (x \in Elements(notif.success)) # (x \in Elements(notif.failed))
    /\ Elements(notif.success) \cup Elements(notif.failed) \subseteq Elements(notif.recipients)

\* the map of the repository the call is made on, now and when it was made
Stored == IF rcall.repo = "user" THEN users ELSE products

StoredBefore == IF rcall.repo = "user" THEN rcall.pre ELSE rcall.ppre

\* the entity the call returned; an id of <<>> stands for null
Returned == IF rcall.repo = "user" THEN rcall.user ELSE rcall.product

\* C18: for an id that is not stored, findById returns null, update returns
\* null, delete returns false and exists returns false, in both
\* repositories, and the call leaves the stored map as it was.
C18_UnknownIdIsAbsent ==
  (rcall.pc = "done" /\ rcall.op # "create" /\ ~MapHas(StoredBefore, rcall.id)) =>
    /\ rcall.op \in {"findById", "update"} => Returned.id = <<>>
    /\ rcall.op \in {"delete", "exists"} => rcall.flag = FALSE
    /\ users = rcall.pre
    /\ products = rcall.ppre

\* an update of the user repository for an id that is not stored, made
\* while another user is stored
C18_Witness ==
  /\ rcall.pc = "done"
  /\ rcall.repo = "user"
  /\ rcall.op = "update"
  /\ ~MapHas(rcall.pre, rcall.id)
  /\ Len(users) > 0

\* C19: delete returns true exactly when the id was stored, and then the
\* entry is removed; after delete findById gives null and exists is false;
\* exists answers true exactly for the ids findById finds.
C19_DeleteAndExists ==
  /\ (rcall.pc = "done" /\ rcall.op = "delete") =>
       /\ rcall.flag = MapHas(StoredBefore, rcall.id)
       /\ Len(Stored) = Len(StoredBefore) - (IF rcall.flag THEN 1 ELSE 0)
       /\ ~MapHas(Stored, rcall.id)
       /\ rcall.repo = "user" => findById(users, rcall.id).id = <<>>
       /\ rcall.repo = "product" => findProductById(products, rcall.id).id = <<>>
  /\ (rcall.pc = "done" /\ rcall.op = "exists") =>
       /\ rcall.repo = "user" => (rcall.flag = (findById(users, rcall.id).id # <<>>))
       /\ rcall.repo = "product" => (rcall.flag = (findProductById(products, rcall.id).id # <<>>))

\* a delete of a stored product that left another entity in the repository
C19_Witness ==
  /\ rcall.pc = "done"
  /\ rcall.repo = "product"
  /\ rcall.op = "delete"
  /\ rcall.flag = TRUE
  /\ Len(rcall.ppre) = 2
  /\ Len(products) = 1

\* C20: in both repositories an update that succeeds stores and returns a
\* snapshot whose updatedAt is strictly greater than the updatedAt the
\* entity had before the update.
C20_UpdateAdvancesTimestamp ==
  (rcall.pc = "done" /\ rcall.op = "update" /\ Returned.id # <<>>) =>
    /\ MapHas(Stored, rcall.id)
    /\ Stored[MapIndex(Stored, rcall.id)] = Returned
    /\ Returned.updatedAt > StoredBefore[MapIndex(StoredBefore, rcall.id)].updatedAt

\* the stored products whose category is the one asked for
OfCategory(m, category) == {i \in 1..Len(m) : m[i].category = category}

\* list holds exactly the entries of all at the positions keep, in order,
\* each once and unaltered
ExactlyThose(list, all, keep) ==
  /\ Len(list) = Cardinality(keep)
  /\ \A k \in 1..Len(list) : \E i \in keep : list[k] = all[i]
  /\ \A i \in keep : \E k \in 1..Len(list) : list[k] = all[i]

\* C21: findByCategory(c) returns exactly the stored products (those of
\* findAll) whose category is c, and findInStock exactly those whose
\* inStock flag is true: none added, dropped or altered.
C21_QueriesFilterFindAll ==
  (rcall.pc = "done" /\ rcall.repo = "product") =>
    /\ rcall.op = "findByCategory" =>
         ExactlyThose(rcall.list, findAll(products), OfCategory(products, rcall.category))
    /\ rcall.op = "findInStock" =>
         ExactlyThose(rcall.list, findAll(products),
                      {i \in 1..Len(products) : products[i].inStock})

\* findByCategory kept one of two stored products
C21_Witness ==
  /\ rcall.pc = "done"
  /\ rcall.op = "findByCategory"
  /\ Len(products) = 2
  /\ Len(rcall.list) = 1

\* the stored users whose email is the query, letter case ignored
SameEmail(m, q) == {i \in 1..Len(m) : toLowerCase(m[i].email) = toLowerCase(q)}

\* C22: findByEmail(q) returns a stored user whose email equals q ignoring
\* letter case whenever there is one (also one stored with upper-case
\* letters through create or update), and absent otherwise.
C22_FindByEmailIgnoresCase ==
  (rcall.pc = "done" /\ rcall.op = "findByEmail") =>
    IF SameEmail(users, rcall.email) = {}
      THEN rcall.user = NullUser
      ELSE \E i \in SameEmail(users, rcall.email) : rcall.user = users[i]

\* C23: every stored user has a lower-cased, trimmed email of the email
\* format and a name of 2 to 100 characters once trimmed; a request that
\* violates this is rejected and never stored.
C23_StoredUsersValid ==
  \A i \in 1..Len(users) :
    /\ users[i].email = trim(toLowerCase(users[i].email))
    /\ validEmail(users[i].email)
    /\ Len(trim(users[i].name)) >= 2
    /\ Len(trim(users[i].name)) <= 100

\* C24: every stored product has a name of 2 to 200 characters, a positive
\* price of at most 999,999.99 (prices of the model are whole amounts, so
\* they are rounded to two decimal places) and a description of 10 to 1000
\* characters; createProduct and updateProduct reject anything else.
C24_StoredProductsValid ==
  \A i \in 1..Len(products) :
    /\ Len(products[i].name) >= 2
    /\ Len(products[i].name) <= 200
    /\ products[i].price > 0
    /\ products[i].price <= 999999
    /\ Len(products[i].description) >= 10
    /\ Len(products[i].description) <= 1000

\* the body errorHandler sends: {error: {message, statusCode, timestamp, path, method}}
Envelope(body, message) ==
  /\ DOMAIN body = {"error"}
  /\ DOMAIN body.error = {"message", "statusCode", "timestamp", "path", "method"}
  /\ body.error.message = message
  /\ body.error.statusCode = 500
  /\ body.error.path = Path(http.route)
  /\ body.error.method = Method(http.route)

\* the response sent answers a service call that failed (succeeded) with
\* the message
Answers(failed, message) ==
  IF failed
    THEN http.status = 500 /\ Envelope(http.body, message)
    ELSE http.status = (IF http.route \in {"createUser", "createProduct"} THEN 201 ELSE 200)

\* what holds of every response, whatever a 400 is sent for
Responses(badRequest) ==
  (http.pc = "sent") =>
    /\ (pc["p1"] = "done") =>
         Answers(result["p1"].status = "error", result["p1"].message)
    /\ (pcall.pc = "done") => Answers(pcall.status = "error", pcall.message)
    /\ http.status \in {200, 201, 400, 500}
    /\ (http.status # 400) => http.called
    /\ (http.status = 400) =>
         /\ ~http.called
         /\ pc["p1"] \in {"idle", "unused"}
         /\ pcall.pc \in {"idle", "unused"}
         /\ badRequest

Occurrences(list, h) == Cardinality({i \in 1..Len(list) : list[i] = h})

\* what unsubscribe(ecall.type, ecall.handler) did when the handler was not
\* registered under the type: nothing
UnsubscribeOfAbsent ==
  (ecall.op = "unsubscribe" /\ Occurrences(ecall.before[ecall.type], ecall.handler) = 0) =>
    handlers = ecall.before

\* C26: unsubscribe of a handler that is not registered under the kind
\* changes no handler list; unsubscribe of a registered handler removes it
\* from that kind only, and later publishes of that kind do not invoke it.
C26_UnsubscribeRemoves ==
  /\ UnsubscribeOfAbsent
  /\ (ecall.op = "unsubscribe"
        /\ Occurrences(ecall.before[ecall.type], ecall.handler) > 0) =>
       /\ Occurrences(handlers[ecall.type], ecall.handler) = 0
       /\ \A type \in EventTypes \ {ecall.type} : handlers[type] = ecall.before[type]
  /\ (ecall.op = "publish") =>
       \A k \in 1..Len(ecall.invoked) : <<ecall.type, ecall.invoked[k]>> \notin ecall.removed

\* C26 amended: unsubscribe of a registered handler removes one
\* registration of it, the earliest, from that kind only; a publish invokes
\* only handlers that still have a registration under the kind.
C26_UnsubscribeRemovesOne ==
  /\ UnsubscribeOfAbsent
  /\ (ecall.op = "unsubscribe"
        /\ Occurrences(ecall.before[ecall.type], ecall.handler) > 0) =>
       LET was == ecall.before[ecall.type]
           first == CHOOSE i \in 1..Len(was) :
                      was[i] = ecall.handler /\ \A j \in 1..(i - 1) : was[j] # ecall.handler
       IN /\ handlers[ecall.type] =
               [k \in 1..(Len(was) - 1) |-> IF k < first THEN was[k] ELSE was[k + 1]]
          /\ \A type \in EventTypes \ {ecall.type} : handlers[type] = ecall.before[type]
  /\ (ecall.op = "publish") =>
       \A k \in 1..Len(ecall.invoked) :
         Occurrences(ecall.before[ecall.type], ecall.invoked[k]) > 0

\* a handler registered twice was unsubscribed once, and a publish of the
\* kind invoked it
C26_Witness ==
  /\ ecall.op = "publish"
  /\ \E k \in 1..Len(ecall.invoked) : <<ecall.type, ecall.invoked[k]>> \in ecall.removed

\* C27: once deleteUser(id) has completed successfully the id is not
\* stored, also when updateUser calls on the id were in flight when the
\* delete completed.
C27_DeletedStaysDeleted ==
  \A p \in Procs : Succeeded(p, "deleteUser") => ~MapHas(users, loc[p].id)

\* two updateUser calls on the same user that overlapped, p changing the
\* name only and q the email only, both completed successfully
BothUpdated(p, q) ==
  /\ Succeeded(p, "updateUser") /\ Succeeded(q, "updateUser")
  /\ loc[p].id = loc[q].id
  /\ p \in loc[q].rivals \/ q \in loc[p].rivals
  /\ Truthy(loc[p].name) /\ ~Truthy(loc[p].email)
  /\ Truthy(loc[q].email) /\ ~Truthy(loc[q].name)

\* C28: when two overlapping updateUser calls on one user, one changing
\* only the name and the other only the email, both complete successfully,
\* the stored user has the new name and the new email.
C28_NoLostUpdate ==
  \A p, q \in Procs :
    BothUpdated(p, q) =>
      /\ MapHas(users, loc[p].id)
      /\ MapGet(users, loc[p].id).name = trim(loc[p].name)
      /\ MapGet(users, loc[p].id).email = Canonical(loc[q].email)

\* the positions of the events published for the id
EventsOf(id) == {i \in 1..Len(events) : events[i].aggregateId = id}

\* C29: the events published for a user id are one UserCreatedEvent, then
\* UserUpdatedEvents, then at most one UserDeletedEvent: nothing is
\* published for the id after its UserDeletedEvent.
C29_EventOrder ==
  \A i \in 1..Len(events) :
    LET id == events[i].aggregateId
        earlier == {j \in EventsOf(id) : j < i}
    IN /\ (events[i].kind = "UserCreatedEvent") <=> (earlier = {})
       /\ \A j \in earlier : events[j].kind # "UserDeletedEvent"

\* C30: when send of the selected strategy throws, sendNotification
\* returns false, raises nothing, and has called send on no other strategy,
\* not even one registered later that accepts the recipient too.
C30_ThrownSendGivesFalse ==
  (notif.op = "sendNotification" /\ notif.pc = "done"
     /\ notif.sends # <<>> /\ notif.sends[1].state = "thrown") =>
    /\ notif.status = "ok"
    /\ notif.value = FALSE
    /\ Len(notif.invoked) = 1
    /\ \A i \in Accepting(notif.recipients[1]) : notif.invoked[1].index <= i

\* send of the selected strategy threw while a strategy registered later
\* accepts the recipient as well
C30_Witness ==
  /\ notif.op = "sendNotification"
  /\ notif.pc = "done"
  /\ notif.sends # <<>>
  /\ notif.sends[1].state = "thrown"
  /\ Cardinality(Accepting(notif.recipients[1])) >= 2

====
